---------------------------- MODULE Spec2Model ----------------------------
(***************************************************************************)
(* Authenticity zkApp: split-round SHA-256 (off-circuit 63 rounds, final   *)
(* round in circuit), the 128-bit limb codecs for digests and secp256r1    *)
(* keys, and the packed bank of twenty-five 10-bit chain counters.         *)
(*                                                                         *)
(* Representation.  TLC integers are 32-bit signed, so a 32-bit word, a    *)
(* 128-bit limb, a 256-bit coordinate and a 254-bit field element are all   *)
(* kept at their real width as sequences of bits, least significant bit    *)
(* first (the order of o1js Field.toBits).  Bytes, chain ids and counter   *)
(* values are small and stay plain integers.                               *)
(***************************************************************************)
EXTENDS Integers, Sequences, FiniteSets, TLC

(***************************************************************************)
(* Bit-vector primitives                                                   *)
(***************************************************************************)
RECURSIVE BitsVal(_, _, _)
\* value of bits b[lo..hi] (b[lo] least significant); at most 30 bits
BitsVal(b, lo, hi) ==
  IF lo > hi THEN 0
  ELSE IF lo = hi THEN b[lo]
  ELSE LET mid == (lo + hi) \div 2
       IN  BitsVal(b, lo, mid)
             + (2 ^ (mid - lo + 1)) * BitsVal(b, mid + 1, hi)

\* f as an explicit tuple (the same value; TLC then holds it evaluated)
Tup(f) == f \o <<>>

\* the `width` low bits of the small natural n, least significant first
NatToBits(n, width) == Tup([i \in 1..width |-> (n \div (2 ^ (i - 1))) % 2])

\* a 32-bit word from its two 16-bit halves
Word(halves) == NatToBits(halves[2], 16) \o NatToBits(halves[1], 16)

IsWord(w) == /\ Len(w) = 32
             /\ \A i \in 1..32 : w[i] \in {0, 1}

BitXor(x, y) == Tup([i \in 1..32 |-> (x[i] + y[i]) % 2])
BitAnd(x, y) == Tup([i \in 1..32 |-> x[i] * y[i]])
BitOr(x, y)  == Tup([i \in 1..32 |-> IF x[i] + y[i] > 0 THEN 1 ELSE 0])
BitNot(x)    == Tup([i \in 1..32 |-> 1 - x[i]])
\* logical shifts on 32 bits; bits shifted out are discarded
ShiftRight(x, n) == Tup([i \in 1..32 |-> IF i + n <= 32 THEN x[i + n] ELSE 0])
ShiftLeft(x, n)  == Tup([i \in 1..32 |-> IF i > n THEN x[i - n] ELSE 0])

RECURSIVE SumLimb(_, _, _)
\* sum over the words of ws of their 16-bit limb starting at bit `from`
SumLimb(ws, from, k) ==
  IF k = 0 THEN 0
  ELSE BitsVal(ws[k], from, from + 15) + SumLimb(ws, from, k - 1)

\* JS `(x1 + ... + xn) >>> 0`: the exact sum of the operands (exact in a
\* double; an operand produced by ^ or & is a signed int32, congruent to
\* its bit pattern modulo 2^32), then ToUint32
jsSumU32(ws) ==
  LET lo == SumLimb(ws, 1, Len(ws))
      hi == SumLimb(ws, 17, Len(ws)) + (lo \div 65536)
  IN  IF lo >= 0 /\ hi >= 0
      THEN NatToBits(lo % 65536, 16) \o NatToBits(hi % 65536, 16)
      ELSE <<>>

\* the sum of two field elements that each hold a 32-bit value: 33 bits
fieldAdd32(x, y) ==
  LET lo == BitsVal(x, 1, 16) + BitsVal(y, 1, 16)
      hi == BitsVal(x, 17, 32) + BitsVal(y, 17, 32) + (lo \div 65536)
  IN  IF lo >= 0 /\ hi >= 0
      THEN NatToBits(lo % 65536, 16) \o NatToBits(hi, 17)
      ELSE <<>>

\* a mutant: UInt32 addition without the reduction modulo 2^32; the
\* carry stays in the result as a 33rd bit
addNoWrap(x, y) ==
  LET s == fieldAdd32(x, y)
  IN  IF s[33] = 1 THEN s ELSE SubSeq(s, 1, 32)

\* o1js UInt32.addMod32: (x + y) mod 2^32
addMod32(x, y) == SubSeq(fieldAdd32(x, y), 1, 32)

(***************************************************************************)
(* SHA-256 constants                                                       *)
(***************************************************************************)
K ==
  Tup([i \in 1..64 |-> Word(
  <<
     <<17034, 12184>>, <<28983, 17553>>, <<46528, 64463>>, <<59829, 56229>>,
     <<14678, 49755>>, <<23025, 4593>>, <<37439, 33444>>, <<43804, 24277>>,
     <<55303, 43672>>, <<4739, 23297>>, <<9265, 34238>>, <<21772, 32195>>,
     <<29374, 23924>>, <<32990, 45566>>, <<39900, 1703>>, <<49563, 61812>>,
     <<58523, 27073>>, <<61374, 18310>>, <<4033, 40390>>, <<9228, 41420>>,
     <<11753, 11375>>, <<19060, 33962>>, <<23728, 43484>>, <<30457, 35034>>,
     <<38974, 20818>>, <<43057, 50797>>, <<45059, 10184>>, <<48985, 32711>>,
     <<50912, 3059>>, <<54695, 37191>>, <<1738, 25425>>, <<5161, 10599>>,
     <<10167, 2693>>, <<11803, 8504>>, <<19756, 28156>>, <<21304, 3347>>,
     <<25866, 29524>>, <<30314, 2747>>, <<33218, 51502>>, <<37490, 11397>>,
     <<41663, 59553>>, <<43034, 26187>>, <<49739, 35696>>, <<51052, 20899>>,
     <<53650, 59417>>, <<54937, 1572>>, <<62478, 13701>>, <<4202, 41072>>,
     <<6564, 49430>>, <<7735, 27656>>, <<10056, 30540>>, <<13488, 48309>>,
     <<14620, 3251>>, <<20184, 43594>>, <<23452, 51791>>, <<26670, 28659>>,
     <<29839, 33518>>, <<30885, 25455>>, <<33992, 30740>>, <<36039, 520>>,
     <<37054, 65530>>, <<42064, 27883>>, <<48889, 41975>>, <<50801, 30962>>
  >>[i])])

INITIAL_HASH ==
  Tup([i \in 1..8 |-> Word(
  <<
     <<27145, 58983>>, <<47975, 44677>>, <<15470, 62322>>, <<42319, 62778>>,
     <<20750, 21119>>, <<39685, 26764>>, <<8067, 55723>>, <<23520, 52505>>
  >>[i])])

(***************************************************************************)
(* Off-circuit SHA-256 on JS numbers (commitmentHelpers.ts)                *)
(***************************************************************************)
\* ((value >>> amount) | (value << (32 - amount))) >>> 0
rightRotate(value, amount) ==
  BitOr(ShiftRight(value, amount), ShiftLeft(value, 32 - amount))

\* a mutant: the four bytes read least significant first
readUInt32BE_littleEndian(block, offset) ==
  Tup([i \in 1..32 |->
     (block[offset + 1 + ((i - 1) \div 8)] \div (2 ^ ((i - 1) % 8))) % 2])

\* Buffer.readUInt32BE(offset): bytes offset..offset+3, most significant
\* first; block is a sequence of bytes, offset is 0-based
readUInt32BE(block, offset) ==
  Tup([i \in 1..32 |->
     (block[offset + 4 - ((i - 1) \div 8)] \div (2 ^ ((i - 1) % 8))) % 2])

RECURSIVE extendSchedule(_, _, _)
\* the loop `for (i = 16; i < 64; i++) w[i] = ...` for i in from..to-1; w
\* holds w[0..from-1].  The iterations are run as two halves, one after
\* the other, which keeps the evaluation shallow.
extendSchedule(w, from, to) ==
  IF from >= to THEN w
  ELSE IF to = from + 1 THEN
    LET i   == from
        w15 == w[i - 15 + 1]
        w2  == w[i - 2 + 1]
        s0  == BitXor(BitXor(rightRotate(w15, 7), rightRotate(w15, 18)),
                      ShiftRight(w15, 3))
        s1  == BitXor(BitXor(rightRotate(w2, 17), rightRotate(w2, 19)),
                      ShiftRight(w2, 10))
        wi  == jsSumU32(<<w[i - 16 + 1], s0, w[i - 7 + 1], s1>>)
    IN  Append(w, wi)
  ELSE
    LET mid  == (from + to) \div 2
        half == extendSchedule(w, from, mid)
    \* (the test on half only makes TLC evaluate it before the next step)
    IN  IF Len(half) = mid THEN extendSchedule(half, mid, to) ELSE half

\* the message schedule w[0..63] of a 64-byte block (1-based sequence)
messageSchedule(block) ==
  extendSchedule(Tup([i \in 1..16 |-> readUInt32BE(block, (i - 1) * 4)]),
                 16, 64)

\* the body of the round loop on the working variables <<a,...,h>>
jsRound(v, k, wi) ==
  LET a == v[1]  b == v[2]  c == v[3]  d == v[4]
      e == v[5]  f == v[6]  g == v[7]  h == v[8]
      S1 == BitXor(BitXor(rightRotate(e, 6), rightRotate(e, 11)),
                   rightRotate(e, 25))
      ch == BitXor(BitAnd(e, f), BitAnd(BitNot(e), g))
      temp1 == jsSumU32(<<h, S1, ch, k, wi>>)
      S0 == BitXor(BitXor(rightRotate(a, 2), rightRotate(a, 13)),
                   rightRotate(a, 22))
      maj == BitXor(BitXor(BitAnd(a, b), BitAnd(a, c)), BitAnd(b, c))
      temp2 == jsSumU32(<<S0, maj>>)
  \* (the test only makes TLC evaluate temp1 and temp2 first)
  IN  IF Len(temp1) = 32 /\ Len(temp2) = 32
      THEN <<jsSumU32(<<temp1, temp2>>), a, b, c,
             jsSumU32(<<d, temp1>>), e, f, g>>
      ELSE v

RECURSIVE jsRounds(_, _, _, _)
\* rounds i..n-1 applied to the working variables v, run as two halves one
\* after the other (the test on `half` only makes TLC evaluate the first
\* half before the second)
jsRounds(v, w, i, n) ==
  IF i >= n THEN v
  ELSE IF n = i + 1 THEN jsRound(v, K[i + 1], w[i + 1])
  ELSE LET mid  == (i + n) \div 2
           half == jsRounds(v, w, i, mid)
       IN  IF Len(half) = 8 THEN jsRounds(half, w, mid, n) ELSE half

\* all 64 rounds, then the chaining addition
processSHA256Block(state, block) ==
  LET w == messageSchedule(block)
      v == jsRounds(state, w, 0, 64)
  \* (the tests only make TLC evaluate w, then v, before the additions)
  IN  IF Len(w) = 64 /\ Len(v) = 8
      THEN Tup([i \in 1..8 |-> jsSumU32(<<state[i], v[i]>>)])
      ELSE state

\* a mutant: the loop stops one round early, after round 61
processFinalBlockUntilLastRound_round61(state, block) ==
  LET w == messageSchedule(block)
      v == IF Len(w) = 64 THEN jsRounds(state, w, 0, 62) ELSE state
  IN  [penultimateState |-> v,
       finalRoundInputs |-> [initialState  |-> state,
                             messageWord   |-> w[64],
                             roundConstant |-> K[64]]]

\* rounds 0..62 only; the witness for round 63
processFinalBlockUntilLastRound(state, block) ==
  LET w == messageSchedule(block)
      v == IF Len(w) = 64 THEN jsRounds(state, w, 0, 63) ELSE state
  IN  [penultimateState |-> v,
       finalRoundInputs |-> [initialState  |-> state,
                             messageWord   |-> w[64],
                             roundConstant |-> K[64]]]

\* a mutant: room for the length only, not for the 0x80 byte
paddedLength_noMarker(messageLength) ==
  ((messageLength + 8 + 63) \div 64) * 64

\* Math.ceil((messageLength + 9) / 64) * 64
paddedLength(messageLength) == ((messageLength + 9 + 63) \div 64) * 64

\* writeBigUInt64BE(BigInt(messageLength * 8), paddedLength - 8): byte j
\* (0 = most significant) of the 64-bit length; lengths stay below 2^28
lengthByte(messageLength, j) ==
  IF j < 4 THEN 0 ELSE ((messageLength * 8) \div (256 ^ (7 - j))) % 256

padSHA256Message(data) ==
  LET messageLength == Len(data)
      total == paddedLength(messageLength)
  IN  Tup([p \in 1..total |->
         IF p <= messageLength THEN data[p]
         ELSE IF p = messageLength + 1 THEN 128
         ELSE IF p > total - 8
              THEN lengthByte(messageLength, p - (total - 8) - 1)
         ELSE 0])

\* paddedData.subarray(i, i + 64) for the block with 0-based index b
blockAt(padded, b) == SubSeq(padded, 64 * b + 1, 64 * b + 64)

RECURSIVE processBlocks(_, _, _, _)
\* `for (blockIndex ...) state = processSHA256Block(state, blocks[...])`
processBlocks(state, padded, b, n) ==
  IF b >= n THEN state
  ELSE LET next == processSHA256Block(state, blockAt(padded, b))
       IN  IF Len(next) = 8 THEN processBlocks(next, padded, b + 1, n)
           ELSE next

\* the reference digest: SHA-256 of the whole message, as eight words
sha256(data) ==
  LET padded == padSHA256Message(data)
  IN  processBlocks(INITIAL_HASH, padded, 0, Len(padded) \div 64)

(***************************************************************************)
(* Bytes and hex                                                           *)
(***************************************************************************)
HexChars == <<"0", "1", "2", "3", "4", "5", "6", "7",
              "8", "9", "a", "b", "c", "d", "e", "f">>

\* UInt32.toBytesBE(): 4 bytes, most significant first
toBytesBE(w) ==
  <<BitsVal(w, 25, 32), BitsVal(w, 17, 24), BitsVal(w, 9, 16),
    BitsVal(w, 1, 8)>>

\* digest bytes of eight words: each lane as 4 big-endian bytes, in order
wordsToBytes(words) ==
  Tup([p \in 1..32 |-> toBytesBE(words[((p - 1) \div 4) + 1])[((p - 1) % 4) + 1]])

\* Bytes.toHex() / digest('hex'): two lowercase hex digits per byte
toHex(bytes) ==
  Tup([c \in 1..(2 * Len(bytes)) |->
        LET byte == bytes[(c + 1) \div 2]
        IN  IF c % 2 = 1 THEN HexChars[(byte \div 16) + 1]
            ELSE HexChars[(byte % 16) + 1]])

\* hashWords.map((word) => word.toString(16).padStart(8, '0')).join(''):
\* every lane as 8 lowercase hex digits, most significant first
hashHex(words) ==
  Tup([c \in 1..(8 * Len(words)) |->
        LET word == words[((c - 1) \div 8) + 1]
            k == 7 - ((c - 1) % 8)
        IN  HexChars[BitsVal(word, 4 * k + 1, 4 * k + 4) + 1]])

hexDigit(c) == CHOOSE n \in 0..15 : HexChars[n + 1] = c

\* Bytes32.fromHex(hex)
fromHex(hex) ==
  Tup([p \in 1..(Len(hex) \div 2) |->
        16 * hexDigit(hex[2 * p - 1]) + hexDigit(hex[2 * p])])

\* crypto.createHash('sha256').update(imageData).digest('hex')
hashImageOffCircuit(imageData) ==
  LET words == sha256(imageData)
      bytes == wordsToBytes(words)
  \* (the test only makes TLC evaluate the digest before formatting it)
  IN  IF Len(words) = 8 /\ Len(bytes) = 32 THEN toHex(bytes) ELSE <<>>

hashUntilFinalRound(imageData) ==
  LET expectedHash == hashImageOffCircuit(imageData)
      paddedData == padSHA256Message(imageData)
      nBlocks == Len(paddedData) \div 64
      state == processBlocks(INITIAL_HASH, paddedData, 0, nBlocks - 1)
      last == processFinalBlockUntilLastRound(
                state, blockAt(paddedData, nBlocks - 1))
  \* (the test only makes TLC evaluate these in the order of the code)
  IN  IF Len(expectedHash) = 64 /\ Len(paddedData) > 0 /\ Len(state) = 8
      THEN [penultimateState |-> last.penultimateState,
            finalRoundInputs |-> last.finalRoundInputs,
            expectedHash     |-> expectedHash]
      ELSE [expectedHash |-> expectedHash]

(***************************************************************************)
(* In-circuit final round on UInt32 (commitmentHelpers.ts, index.ts)       *)
(***************************************************************************)
\* a mutant: the rotated-in part shifted by `bits` instead of 32 - bits
rightRotate32_sameShift(value, bits) ==
  BitOr(ShiftRight(value, bits), ShiftLeft(value, bits))

\* value.rightShift(bits).or(value.leftShift(32 - bits))
rightRotate32(value, bits) ==
  BitOr(ShiftRight(value, bits), ShiftLeft(value, 32 - bits))

\* a mutant: the round uses the constant K[63], whatever roundConstant is
performFinalSHA256Round_fixedConstant(state, initialState, messageWord, roundConstant) ==
  LET a == state[1]  b == state[2]  c == state[3]  d == state[4]
      e == state[5]  f == state[6]  g == state[7]  h == state[8]
      S1 == BitXor(BitXor(rightRotate32(e, 6), rightRotate32(e, 11)),
                   rightRotate32(e, 25))
      ch == BitXor(BitAnd(e, f), BitAnd(BitNot(e), g))
      temp1 == addMod32(addMod32(addMod32(addMod32(h, S1), ch),
                                 K[64]), messageWord)
      S0 == BitXor(BitXor(rightRotate32(a, 2), rightRotate32(a, 13)),
                   rightRotate32(a, 22))
      maj == BitXor(BitXor(BitAnd(a, b), BitAnd(a, c)), BitAnd(b, c))
      temp2 == addMod32(S0, maj)
      \* h = g; g = f; f = e; e = d + temp1; d = c; c = b; b = a; a = t1 + t2
      out == <<addMod32(temp1, temp2), a, b, c, addMod32(d, temp1), e, f, g>>
  \* (the test only makes TLC evaluate the round before the chaining
  \* additions; a sum without reduction has 33 bits)
  IN  IF Len(temp1) < 32 \/ Len(temp2) < 32 \/ Len(out) < 8 THEN <<>> ELSE
      <<addMod32(initialState[1], out[1]), addMod32(initialState[2], out[2]),
        addMod32(initialState[3], out[3]), addMod32(initialState[4], out[4]),
        addMod32(initialState[5], out[5]), addMod32(initialState[6], out[6]),
        addMod32(initialState[7], out[7]), addMod32(initialState[8], out[8])>>

performFinalSHA256Round(state, initialState, messageWord, roundConstant) ==
  LET a == state[1]  b == state[2]  c == state[3]  d == state[4]
      e == state[5]  f == state[6]  g == state[7]  h == state[8]
      S1 == BitXor(BitXor(rightRotate32(e, 6), rightRotate32(e, 11)),
                   rightRotate32(e, 25))
      ch == BitXor(BitAnd(e, f), BitAnd(BitNot(e), g))
      temp1 == addMod32(addMod32(addMod32(addMod32(h, S1), ch),
                                 roundConstant), messageWord)
      S0 == BitXor(BitXor(rightRotate32(a, 2), rightRotate32(a, 13)),
                   rightRotate32(a, 22))
      maj == BitXor(BitXor(BitAnd(a, b), BitAnd(a, c)), BitAnd(b, c))
      temp2 == addMod32(S0, maj)
      \* h = g; g = f; f = e; e = d + temp1; d = c; c = b; b = a; a = t1 + t2
      out == <<addMod32(temp1, temp2), a, b, c, addMod32(d, temp1), e, f, g>>
  \* (the test only makes TLC evaluate the round before the chaining
  \* additions; a sum without reduction has 33 bits)
  IN  IF Len(temp1) < 32 \/ Len(temp2) < 32 \/ Len(out) < 8 THEN <<>> ELSE
      <<addMod32(initialState[1], out[1]), addMod32(initialState[2], out[2]),
        addMod32(initialState[3], out[3]), addMod32(initialState[4], out[4]),
        addMod32(initialState[5], out[5]), addMod32(initialState[6], out[6]),
        addMod32(initialState[7], out[7]), addMod32(initialState[8], out[8])>>

\* the final round on a FinalRoundInputs struct, as verifyAuthenticity
\* calls it
finalHashOf(roundInputs) ==
  performFinalSHA256Round(roundInputs.state, roundInputs.initialState,
                          roundInputs.messageWord, roundInputs.roundConstant)

\* a mutant: only the first seven lanes are compared with the commitment
hashMatches_sevenLanes(finalHash, commitment) ==
  SubSeq(wordsToBytes(finalHash), 1, 28) = SubSeq(commitment, 1, 28)

\* Provable.assertEqual(Bytes32.from(hashBytes), publicInput.commitment)
hashMatches(finalHash, commitment) == wordsToBytes(finalHash) = commitment

\* Ecdsa.signHash(message, privateKey): an ideal signature, which names
\* the message and the key pair that signed it
signHash(message, privateKey) == [msg |-> message, signer |-> privateKey]

\* signature.verifySignedHash(message, publicKey); the public key of key
\* pair k is written k
verifySignedHash(signature, message, publicKey) ==
  signature.msg = message /\ signature.signer = publicKey

\* a mutant: the signature is not checked
verifyAuthenticity_noSignature(publicInput, roundInputs) ==
  hashMatches(finalHashOf(roundInputs), publicInput.commitment)

\* AuthenticityProgram.verifyAuthenticity: TRUE when every assertion of
\* the method holds, so that a proof is produced
verifyAuthenticity(publicInput, roundInputs) ==
  /\ hashMatches(finalHashOf(roundInputs), publicInput.commitment)
  /\ verifySignedHash(publicInput.signature, publicInput.commitment,
                      publicInput.publicKey)


(***************************************************************************)
(* Field elements and bigints                                              *)
(*                                                                         *)
(* A field element (below the Pallas modulus, itself below 2^255) or a     *)
(* 256-bit bigint is a sequence of 16 digits in base 65536, least          *)
(* significant first.  No value computed by the codecs or the counter      *)
(* bank reaches the field modulus, so field arithmetic is integer          *)
(* arithmetic here.                                                        *)
(***************************************************************************)
bigZero == <<0, 0, 0, 0, 0, 0, 0, 0, 0, 0, 0, 0, 0, 0, 0, 0>>

\* Field(n) for a small natural n
bigOfNat(n) == <<n % 65536, n \div 65536, 0, 0, 0, 0, 0, 0,
                 0, 0, 0, 0, 0, 0, 0, 0>>

RECURSIVE mulDigits(_, _, _, _, _)
\* long multiplication of digits from..to of x by c; st holds the digits
\* written so far and the carry.  The digits are done as two halves, one
\* after the other (the test on `half` only makes TLC finish the first).
mulDigits(x, c, from, to, st) ==
  IF from = to
  THEN LET t == x[from] * c + st.carry
       IN  [digits |-> Append(st.digits, t % 65536), carry |-> t \div 65536]
  ELSE LET mid  == (from + to) \div 2
           half == mulDigits(x, c, from, mid, st)
       IN  IF half.carry >= 0 THEN mulDigits(x, c, mid + 1, to, half)
           ELSE half

\* Field.mul(c) for a small constant c
fieldMul(x, c) ==
  mulDigits(x, c, 1, 16, [digits |-> <<>>, carry |-> 0]).digits

RECURSIVE addDigits(_, _, _, _, _)
\* long addition of digits from..to of x and y, in the same way
addDigits(x, y, from, to, st) ==
  IF from = to
  THEN LET t == x[from] + y[from] + st.carry
       IN  [digits |-> Append(st.digits, t % 65536), carry |-> t \div 65536]
  ELSE LET mid  == (from + to) \div 2
           half == addDigits(x, y, from, mid, st)
       IN  IF half.carry >= 0 THEN addDigits(x, y, mid + 1, to, half)
           ELSE half

\* Field.add
fieldAdd(x, y) ==
  addDigits(x, y, 1, 16, [digits |-> <<>>, carry |-> 0]).digits

RECURSIVE lessFrom(_, _, _)
\* x < y, decided by the most significant digit at or below i that differs
lessFrom(x, y, i) ==
  IF i = 0 THEN FALSE
  ELSE IF x[i] # y[i] THEN x[i] < y[i]
  ELSE lessFrom(x, y, i - 1)

\* the comparison behind Field.assertLessThan
fieldLessThan(x, y) == lessFrom(x, y, 16)

\* Field(1n << 128n)
max128 == <<0, 0, 0, 0, 0, 0, 0, 0, 1, 0, 0, 0, 0, 0, 0, 0>>

\* Number((n >> BigInt(i * 8)) & 0xffn)
byteOfBig(n, i) == (n[(i \div 2) + 1] \div (256 ^ (i % 2))) % 256

\* a mutant: the bytes of a limb pushed least significant first
limbBytes_littleEndian(n) == Tup([k \in 1..16 |-> byteOfBig(n, k - 1)])

\* `for (i = 15; i >= 0; i--) bytes.push(byte i)`: 16 bytes, big-endian
limbBytes(n) == Tup([k \in 1..16 |-> byteOfBig(n, 16 - k)])

\* `for (i = 31; i >= 0; i--) bytes.push(byte i)`: 32 bytes, big-endian
coordinateBytes(n) == Tup([k \in 1..32 |-> byteOfBig(n, 32 - k)])

RECURSIVE foldBytes(_, _, _, _)
\* `for (i = from; i < to; i++) acc = acc.mul(256).add(bytes[i].value)`;
\* positions from..to are 1-based and inclusive here.  The iterations are
\* run as two halves, one after the other (the test on `half` only makes
\* TLC finish the first half before the second).
foldBytes(acc, bytes, from, to) ==
  IF from > to THEN acc
  ELSE IF from = to
  THEN LET shifted == fieldMul(acc, 256)
       IN  IF Len(shifted) = 16
           THEN fieldAdd(shifted, bigOfNat(bytes[from]))
           ELSE acc
  ELSE LET mid  == (from + to) \div 2
           half == foldBytes(acc, bytes, from, mid)
       IN  IF Len(half) = 16 THEN foldBytes(half, bytes, mid + 1, to)
           ELSE half

\* x << 8n on a bigint below 2^248
bigShiftLeft8(x) ==
  Tup([i \in 1..16 |->
        (x[i] % 256) * 256 + (IF i > 1 THEN x[i - 1] \div 256 ELSE 0)])

\* a | b on two 16-bit values
or16(a, b) ==
  LET x == NatToBits(a, 16)
      y == NatToBits(b, 16)
  IN  BitsVal(Tup([i \in 1..16 |-> IF x[i] + y[i] > 0 THEN 1 ELSE 0]), 1, 16)

\* x | BigInt(byte)
bigOrByte(x, byte) == [x EXCEPT ![1] = or16(@, byte)]

RECURSIVE shiftOrBytes(_, _, _, _)
\* `for (i = 0; i < 32; i++) acc = (acc << 8n) | BigInt(bytes[i])` for the
\* 1-based positions from..to, run as two halves one after the other
shiftOrBytes(acc, bytes, from, to) ==
  IF from > to THEN acc
  ELSE IF from = to
  THEN LET shifted == bigShiftLeft8(acc)
       IN  IF Len(shifted) = 16 THEN bigOrByte(shifted, bytes[from])
           ELSE acc
  ELSE LET mid  == (from + to) \div 2
           half == shiftOrBytes(acc, bytes, from, mid)
       IN  IF Len(half) = 16 THEN shiftOrBytes(half, bytes, mid + 1, to)
           ELSE half

(***************************************************************************)
(* Commitment codecs (index.ts: SHACommitment, Secp256r1Commitment)        *)
(***************************************************************************)
Rejected(message) == [ok |-> FALSE, error |-> message]

\* a mutant: the low limb is folded from bytes 15..30
toTwoFields_offByOne(bytes) ==
  [high128 |-> foldBytes(bigZero, bytes, 1, 16),
   low128  |-> foldBytes(bigZero, bytes, 16, 31)]

\* SHACommitment.toTwoFields on the 32 bytes of the commitment
toTwoFields(bytes) ==
  [high128 |-> foldBytes(bigZero, bytes, 1, 16),
   low128  |-> foldBytes(bigZero, bytes, 17, 32)]

\* a mutant: no range check and no self-check
fromTwoFields_unchecked(high128, low128) ==
  [ok |-> TRUE, bytes |-> limbBytes(high128) \o limbBytes(low128)]

\* a mutant: the low limb's bytes are placed first
fromTwoFields_lowFirst(high128, low128) ==
  IF ~fieldLessThan(high128, max128)
  THEN Rejected("high128 must be less than 2^128")
  ELSE IF ~fieldLessThan(low128, max128)
  THEN Rejected("low128 must be less than 2^128")
  ELSE LET bytes == limbBytes(low128) \o limbBytes(high128)
           reconstructed == toTwoFields(bytes)
       IN  IF high128 # reconstructed.high128
                \/ low128 # reconstructed.low128
           THEN Rejected("assertEquals")
           ELSE [ok |-> TRUE, bytes |-> bytes]

\* SHACommitment.fromTwoFields: the commitment's bytes, or the assertion
\* that failed
fromTwoFields(high128, low128) ==
  IF ~fieldLessThan(high128, max128)
  THEN Rejected("high128 must be less than 2^128")
  ELSE IF ~fieldLessThan(low128, max128)
  THEN Rejected("low128 must be less than 2^128")
  ELSE LET bytes == limbBytes(high128) \o limbBytes(low128)
           reconstructed == toTwoFields(bytes)
       IN  IF high128 # reconstructed.high128
                \/ low128 # reconstructed.low128
           THEN Rejected("assertEquals")
           ELSE [ok |-> TRUE, bytes |-> bytes]

\* Secp256r1Commitment.toFourFields
toFourFields(c) ==
  [xHigh128 |-> foldBytes(bigZero, c.xBytes, 1, 16),
   xLow128  |-> foldBytes(bigZero, c.xBytes, 17, 32),
   yHigh128 |-> foldBytes(bigZero, c.yBytes, 1, 16),
   yLow128  |-> foldBytes(bigZero, c.yBytes, 17, 32)]

\* Secp256r1Commitment.fromFourFields
fromFourFields(xHigh128, xLow128, yHigh128, yLow128) ==
  IF ~fieldLessThan(xHigh128, max128)
  THEN Rejected("xHigh128 must be less than 2^128")
  ELSE IF ~fieldLessThan(xLow128, max128)
  THEN Rejected("xLow128 must be less than 2^128")
  ELSE IF ~fieldLessThan(yHigh128, max128)
  THEN Rejected("yHigh128 must be less than 2^128")
  ELSE IF ~fieldLessThan(yLow128, max128)
  THEN Rejected("yLow128 must be less than 2^128")
  ELSE LET commitment ==
             [xBytes |-> limbBytes(xHigh128) \o limbBytes(xLow128),
              yBytes |-> limbBytes(yHigh128) \o limbBytes(yLow128)]
           reconstructed == toFourFields(commitment)
       IN  IF \/ xHigh128 # reconstructed.xHigh128
              \/ xLow128 # reconstructed.xLow128
              \/ yHigh128 # reconstructed.yHigh128
              \/ yLow128 # reconstructed.yLow128
           THEN Rejected("assertEquals")
           ELSE [ok |-> TRUE, xBytes |-> commitment.xBytes,
                 yBytes |-> commitment.yBytes]

\* a mutant: the y coordinate is serialised from x
fromPublicKey_yFromX(publicKey) ==
  [xBytes |-> coordinateBytes(publicKey.x),
   yBytes |-> coordinateBytes(publicKey.x)]

\* Secp256r1Commitment.fromPublicKey
fromPublicKey(publicKey) ==
  [xBytes |-> coordinateBytes(publicKey.x),
   yBytes |-> coordinateBytes(publicKey.y)]

\* Secp256r1Commitment.toPublicKey; the key is the pair of coordinates
toPublicKey(c) ==
  [x |-> shiftOrBytes(bigZero, c.xBytes, 1, 32),
   y |-> shiftOrBytes(bigZero, c.yBytes, 1, 32)]

(***************************************************************************)
(* Packed chain counters (PackedImageChainCounters)                        *)
(***************************************************************************)
CHAIN_COUNT == 25
BITS_PER_CHAIN == 10
MAX_PER_CHAIN == 1023

\* field.toBits(254) succeeds: the value is below 2^254
fitsBits254(field) == field[16] < 16384

\* field.toBits(254): bits 1..254, least significant first
toBits254(field) ==
  Tup([j \in 1..254 |->
        (field[((j - 1) \div 16) + 1] \div (2 ^ ((j - 1) % 16))) % 2])

\* a mutant: only the 250 bits of the counters are packed again
fromBits254_countersOnly(bits) ==
  Tup([k \in 1..16 |->
        BitsVal(bits, 16 * (k - 1) + 1,
                IF 16 * k > 250 THEN 250 ELSE 16 * k)])

\* Field.fromBits on 254 bits
fromBits254(bits) ==
  Tup([k \in 1..16 |->
        BitsVal(bits, 16 * (k - 1) + 1,
                IF 16 * k > 254 THEN 254 ELSE 16 * k)])

RECURSIVE scanChains_oneBased(_, _, _, _, _)
\* a mutant: the window of chain i is read from bit 10i + 1
scanChains_oneBased(bits, chainId, from, to, result) ==
  IF from >= to THEN result
  ELSE IF to = from + 1
  THEN LET i == from
           isThisChain == chainId = i
           startBit == i * BITS_PER_CHAIN + 1
           chainLength == BitsVal(bits, startBit + 1,
                                  startBit + BITS_PER_CHAIN)
       IN  IF isThisChain THEN chainLength ELSE result
  ELSE LET mid  == (from + to) \div 2
           half == scanChains_oneBased(bits, chainId, from, mid, result)
       IN  IF half >= 0 THEN scanChains_oneBased(bits, chainId, mid, to, half)
           ELSE half

RECURSIVE scanChains(_, _, _, _, _)
\* the loop of getChainLength over chains from..to-1: every slot is read,
\* the one whose index equals chainId is kept.  The iterations are run as
\* two halves, one after the other (the test on `half` only makes TLC
\* finish the first half before the second).
scanChains(bits, chainId, from, to, result) ==
  IF from >= to THEN result
  ELSE IF to = from + 1
  THEN LET i == from
           isThisChain == chainId = i
           startBit == i * BITS_PER_CHAIN
           chainLength == BitsVal(bits, startBit + 1,
                                  startBit + BITS_PER_CHAIN)
       IN  IF isThisChain THEN chainLength ELSE result
  ELSE LET mid  == (from + to) \div 2
           half == scanChains(bits, chainId, from, mid, result)
       IN  IF half >= 0 THEN scanChains(bits, chainId, mid, to, half)
           ELSE half

\* a mutant: the scan stops one chain early and never reads chain 24
getChainLength_skipLast(field, chainId) ==
  IF ~fitsBits254(field) THEN Rejected("toBits")
  ELSE LET bits == toBits254(field)
       IN  IF Len(bits) = 254
           THEN [ok |-> TRUE,
                 value |-> scanChains(bits, chainId, 0, CHAIN_COUNT - 1, 0)]
           ELSE Rejected("toBits")

\* getChainLength(field, chainId): the value, or the failure of toBits
getChainLength(field, chainId) ==
  IF ~fitsBits254(field) THEN Rejected("toBits")
  ELSE LET bits == toBits254(field)
       IN  IF Len(bits) = 254
           THEN [ok |-> TRUE,
                 value |-> scanChains(bits, chainId, 0, CHAIN_COUNT, 0)]
           ELSE Rejected("toBits")

\* a mutant: the bound on the new length is off by one, 1024 passes
setChainLength_offByOne(field, chainId, newLength) ==
  IF newLength > MAX_PER_CHAIN + 1
  THEN Rejected("Length exceeds maximum, it must be <= 1023")
  ELSE IF ~fitsBits254(field) THEN Rejected("toBits")
  ELSE
    LET bits == toBits254(field)
        newBits == NatToBits(newLength, BITS_PER_CHAIN)
        updated ==
          Tup([p \in 1..254 |->
                LET chainIndex == (p - 1) \div BITS_PER_CHAIN
                    bitIndex == (p - 1) % BITS_PER_CHAIN
                IN  IF chainIndex < CHAIN_COUNT /\ chainId = chainIndex
                    THEN newBits[bitIndex + 1]
                    ELSE bits[p]])
    IN  IF Len(bits) = 254 /\ Len(updated) = 254
        THEN [ok |-> TRUE, field |-> fromBits254(updated)]
        ELSE Rejected("toBits")

\* a mutant: the window of chain i starts one bit too low, at bit 10i - 1
setChainLength_shiftedWindow(field, chainId, newLength) ==
  IF newLength > MAX_PER_CHAIN
  THEN Rejected("Length exceeds maximum, it must be <= 1023")
  ELSE IF ~fitsBits254(field) THEN Rejected("toBits")
  ELSE
    LET bits == toBits254(field)
        newBits == NatToBits(newLength, BITS_PER_CHAIN)
        updated ==
          Tup([p \in 1..254 |->
                LET chainIndex == p \div BITS_PER_CHAIN
                    bitIndex == p % BITS_PER_CHAIN
                IN  IF chainIndex < CHAIN_COUNT /\ chainId = chainIndex
                    THEN newBits[bitIndex + 1]
                    ELSE bits[p]])
    IN  IF Len(bits) = 254 /\ Len(updated) = 254
        THEN [ok |-> TRUE, field |-> fromBits254(updated)]
        ELSE Rejected("toBits")

\* setChainLength(field, chainId, newLength): the updated field, or the
\* assertion that failed
setChainLength(field, chainId, newLength) ==
  IF newLength > MAX_PER_CHAIN
  THEN Rejected("Length exceeds maximum, it must be <= 1023")
  ELSE IF ~fitsBits254(field) THEN Rejected("toBits")
  ELSE
    LET bits == toBits254(field)
        newBits == NatToBits(newLength, BITS_PER_CHAIN)
        updated ==
          Tup([p \in 1..254 |->
                LET chainIndex == (p - 1) \div BITS_PER_CHAIN
                    bitIndex == (p - 1) % BITS_PER_CHAIN
                IN  IF chainIndex < CHAIN_COUNT /\ chainId = chainIndex
                    THEN newBits[bitIndex + 1]
                    ELSE bits[p]])
    IN  IF Len(bits) = 254 /\ Len(updated) = 254
        THEN [ok |-> TRUE, field |-> fromBits254(updated)]
        ELSE Rejected("toBits")

\* a mutant: no saturation check, the new length wraps at 10 bits
incrementChain_wrapping(field, chainId) ==
  LET currentLength == getChainLength(field, chainId)
  IN  IF ~currentLength.ok THEN currentLength
      ELSE setChainLength(field, chainId,
                          (currentLength.value + 1) % (MAX_PER_CHAIN + 1))

\* a mutant: the counter goes up by two
incrementChain_byTwo(field, chainId) ==
  LET currentLength == getChainLength(field, chainId)
  IN  IF ~currentLength.ok THEN currentLength
      ELSE IF ~(currentLength.value < MAX_PER_CHAIN)
      THEN Rejected("Cannot exceed 1023 images")
      ELSE setChainLength(field, chainId, currentLength.value + 2)

\* incrementChain(field, chainId)
incrementChain(field, chainId) ==
  LET currentLength == getChainLength(field, chainId)
  IN  IF ~currentLength.ok THEN currentLength
      ELSE IF ~(currentLength.value < MAX_PER_CHAIN)
      THEN Rejected("Cannot exceed 1023 images")
      ELSE setChainLength(field, chainId, currentLength.value + 1)

\* isChainFull(field, chainId)
isChainFull(field, chainId) ==
  LET currentLength == getChainLength(field, chainId)
  IN  IF ~currentLength.ok THEN currentLength
      ELSE [ok |-> TRUE, value |-> currentLength.value = MAX_PER_CHAIN]

RECURSIVE sumChains_uint8(_, _, _, _)
\* a mutant: the running total is kept in 8 bits
sumChains_uint8(field, from, to, total) ==
  IF from >= to THEN total
  ELSE IF to = from + 1
  THEN IF ~total.ok THEN total
       ELSE LET chainLength == getChainLength(field, from).value
                sum == total.value + chainLength
            IN  IF sum > 255 THEN Rejected("UInt8.add")
                ELSE [ok |-> TRUE, value |-> sum]
  ELSE LET mid  == (from + to) \div 2
           half == sumChains_uint8(field, from, mid, total)
       IN  IF half.ok \in BOOLEAN
           THEN sumChains_uint8(field, mid, to, half)
           ELSE half

RECURSIVE sumChains(_, _, _, _)
\* the loop of getTotalImageCount over chains from..to-1, run as two
\* halves one after the other; total is the running UInt32, or the
\* failure of UInt32.add, which asserts that the sum is below 2^32
sumChains(field, from, to, total) ==
  IF from >= to THEN total
  ELSE IF to = from + 1
  THEN IF ~total.ok THEN total
       ELSE LET chainLength == getChainLength(field, from).value
                sum == total.value + chainLength
            IN  IF sum \div 65536 >= 65536 THEN Rejected("UInt32.add")
                ELSE [ok |-> TRUE, value |-> sum]
  ELSE LET mid  == (from + to) \div 2
           half == sumChains(field, from, mid, total)
       IN  IF half.ok \in BOOLEAN THEN sumChains(field, mid, to, half)
           ELSE half

\* getTotalImageCount(field)
getTotalImageCount(field) ==
  IF ~fitsBits254(field) THEN Rejected("toBits")
  ELSE sumChains(field, 0, CHAIN_COUNT, [ok |-> TRUE, value |-> 0])

RECURSIVE scanLongest(_, _, _, _)
\* the linear scan of findLongestChain over chains from..to-1: a chain
\* replaces the running maximum only when it is strictly longer.  The
\* iterations are run as two halves, one after the other (the test on
\* `half` only makes TLC finish the first half before the second).
scanLongest(field, from, to, best) ==
  IF from >= to THEN best
  ELSE IF to = from + 1
  THEN LET chainLength == getChainLength(field, from).value
           isLonger == chainLength > best.longestChainLength
       IN  IF isLonger
           THEN [longestChainId |-> from, longestChainLength |-> chainLength]
           ELSE best
  ELSE LET mid  == (from + to) \div 2
           half == scanLongest(field, from, mid, best)
       IN  IF half.longestChainLength >= 0
           THEN scanLongest(field, mid, to, half)
           ELSE half

\* PackedImageChainCounters.findLongestChain(field): the chain with the
\* most images, the lowest id among equals
findLongestChain(field) ==
  IF ~fitsBits254(field) THEN Rejected("toBits")
  ELSE LET best == scanLongest(field, 0, CHAIN_COUNT,
                               [longestChainId |-> 0,
                                longestChainLength |-> 0])
       IN  [ok |-> TRUE, longestChainId |-> best.longestChainId,
            longestChainLength |-> best.longestChainLength]

(***************************************************************************)
(* Batch reducer (BatchReducer.ts) and contract (AuthenticityZkApp.ts)     *)
(***************************************************************************)
\* chainBatchReducer: batchSize
batchSize == 5

\* a method that failed an assertion: the message, and the state updates
\* that this.<state>.set(...) had staged before the assertion
Failed(message, sets) == [ok |-> FALSE, error |-> message, sets |-> sets]

\* a mutant: a staged update reaches the contract although the method failed
commit_atSet(r, name, current) ==
  IF name \in DOMAIN r.sets THEN r.sets[name] ELSE current

\* this.<name>.set(value) becomes the stored value when the method has run
\* to its end; a method that threw leaves the stored value alone
commit(r, name, current) ==
  IF r.ok /\ name \in DOMAIN r.sets THEN r.sets[name] ELSE current

\* the action that verifyAndStore dispatches (the commitment fields are
\* left out: no counter depends on them)
ImageMintAction(tokenAddress, chainId) ==
  [tokenAddress |-> tokenAddress, chainId |-> chainId]

\* one batch: the actions from position `from` of the action list (0-based),
\* at most batchSize of them, the other slots dummies
batchAt(actions, from, dummyChainId) ==
  [from  |-> from,
   slots |-> Tup([i \in 1..batchSize |->
               IF from + i <= Len(actions)
               THEN [action |-> actions[from + i], isDummy |-> FALSE]
               ELSE [action |-> ImageMintAction("empty", dummyChainId),
                     isDummy |-> TRUE]])]

\* chainBatchReducer.prepareBatches(): the actions dispatched and not yet
\* reduced (actionState counts the reduced ones), batchSize at a time
prepareBatches(actions, actionState, dummyChainId) ==
  LET pending == Len(actions) - actionState
      n == (pending + batchSize - 1) \div batchSize
  IN  Tup([b \in 1..n |->
            batchAt(actions, actionState + (b - 1) * batchSize,
                    dummyChainId)])

RECURSIVE processSlots_countsDummies(_, _, _, _)
\* a mutant: the increment of a dummy slot is kept
processSlots_countsDummies(slots, from, to, counters) ==
  IF from >= to THEN counters
  ELSE IF to = from + 1
  THEN IF ~counters.ok THEN counters
       ELSE incrementChain(counters.field, slots[from + 1].action.chainId)
  ELSE LET mid  == (from + to) \div 2
           half == processSlots_countsDummies(slots, from, mid, counters)
       IN  IF half.ok \in BOOLEAN
           THEN processSlots_countsDummies(slots, mid, to, half)
           ELSE half

RECURSIVE processSlots_saturating(_, _, _, _)
\* a mutant: a slot whose increment fails leaves the counters as they are
processSlots_saturating(slots, from, to, counters) ==
  IF from >= to THEN counters
  ELSE IF to = from + 1
  THEN IF ~counters.ok THEN counters
       ELSE LET action == slots[from + 1].action
                isDummy == slots[from + 1].isDummy
                updatedCounters == incrementChain(counters.field,
                                                  action.chainId)
            IN  IF ~updatedCounters.ok THEN counters
                ELSE IF isDummy THEN counters
                ELSE updatedCounters
  ELSE LET mid  == (from + to) \div 2
           half == processSlots_saturating(slots, from, mid, counters)
       IN  IF half.ok \in BOOLEAN
           THEN processSlots_saturating(slots, mid, to, half)
           ELSE half

RECURSIVE processSlots_selectsFirst(_, _, _, _)
\* a mutant: a dummy slot is skipped before incrementChain is evaluated
processSlots_selectsFirst(slots, from, to, counters) ==
  IF from >= to THEN counters
  ELSE IF to = from + 1
  THEN IF ~counters.ok THEN counters
       ELSE LET action == slots[from + 1].action
                isDummy == slots[from + 1].isDummy
            IN  IF isDummy THEN counters
                ELSE incrementChain(counters.field, action.chainId)
  ELSE LET mid  == (from + to) \div 2
           half == processSlots_selectsFirst(slots, from, mid, counters)
       IN  IF half.ok \in BOOLEAN
           THEN processSlots_selectsFirst(slots, mid, to, half)
           ELSE half

RECURSIVE processSlots(_, _, _, _)
\* chainBatchReducer.processBatch runs the callback on slots from..to-1 of
\* the batch; counters is the running value, or the failure of a slot.
\* The callback increments first and selects on isDummy afterwards.  The
\* slots are run as two halves, one after the other.
processSlots(slots, from, to, counters) ==
  IF from >= to THEN counters
  ELSE IF to = from + 1
  THEN IF ~counters.ok THEN counters
       ELSE LET action == slots[from + 1].action
                isDummy == slots[from + 1].isDummy
                updatedCounters == incrementChain(counters.field,
                                                  action.chainId)
            IN  IF ~updatedCounters.ok THEN updatedCounters
                ELSE IF isDummy THEN counters
                ELSE updatedCounters
  ELSE LET mid  == (from + to) \div 2
           half == processSlots(slots, from, mid, counters)
       IN  IF half.ok \in BOOLEAN THEN processSlots(slots, mid, to, half)
           ELSE half

\* BatchReducerUtils.processActionsInCircuit(batch, proof, initialCounters);
\* the batch proof is valid when the batch starts where the reduction of
\* the contract stands (actionState)
processActionsInCircuit(batch, actionState, initialCounters) ==
  IF batch.from # actionState THEN Rejected("batch proof")
  ELSE processSlots(batch.slots, 0, batchSize,
                    [ok |-> TRUE, field |-> initialCounters])

\* BatchReducerUtils.computeWinner(chainCounters)
computeWinner(counters) ==
  LET longest == findLongestChain(counters)
  IN  IF ~longest.ok THEN longest
      ELSE [ok |-> TRUE, winnerChainId |-> longest.longestChainId,
            winnerLength |-> longest.longestChainLength]

\* the real actions of a batch
realActions(batch) ==
  Cardinality({i \in 1..batchSize : ~batch.slots[i].isDummy})

\* a mutant: the count emitted is read from the counters before the
\* increment
verifyAndStore_countBefore(state, isNew, address, chainId, proofValid) ==
  IF ~(chainId <= CHAIN_COUNT - 1)
  THEN Failed("Invalid chain ID, it must be 0-24", <<>>)
  ELSE IF ~proofValid THEN Failed("proof.verify", <<>>)
  ELSE
    LET currentCounters == state.chainCounters
        isFull == isChainFull(currentCounters, chainId)
    IN  IF ~isFull.ok THEN Failed(isFull.error, <<>>)
        ELSE IF isFull.value
        THEN Failed("Chain has reached maximum capacity (1023 images)", <<>>)
        ELSE
          LET updatedCounters == incrementChain(currentCounters, chainId)
          IN  IF ~updatedCounters.ok THEN Failed(updatedCounters.error, <<>>)
              ELSE
                LET sets == [chainCounters |-> updatedCounters.field]
                    newCount == getChainLength(currentCounters, chainId)
                IN  IF ~isNew THEN Failed("account.isNew", sets)
                    ELSE [ok    |-> TRUE,
                          sets  |-> sets,
                          mint  |-> [address |-> address, amount |-> 1],
                          event |-> [tokenAddress |-> address,
                                     chainId |-> chainId,
                                     imageCount |-> newCount.value]]

\* verifyAndStore(address, chainId, proof) of the contract that counts
\* directly; isNew tells whether the token account of address is new
verifyAndStore(state, isNew, address, chainId, proofValid) ==
  IF ~(chainId <= CHAIN_COUNT - 1)
  THEN Failed("Invalid chain ID, it must be 0-24", <<>>)
  ELSE IF ~proofValid THEN Failed("proof.verify", <<>>)
  ELSE
    LET currentCounters == state.chainCounters
        isFull == isChainFull(currentCounters, chainId)
    IN  IF ~isFull.ok THEN Failed(isFull.error, <<>>)
        ELSE IF isFull.value
        THEN Failed("Chain has reached maximum capacity (1023 images)", <<>>)
        ELSE
          LET updatedCounters == incrementChain(currentCounters, chainId)
          IN  IF ~updatedCounters.ok THEN Failed(updatedCounters.error, <<>>)
              ELSE
                LET sets == [chainCounters |-> updatedCounters.field]
                    newCount == getChainLength(updatedCounters.field, chainId)
                IN  IF ~isNew THEN Failed("account.isNew", sets)
                    ELSE [ok    |-> TRUE,
                          sets  |-> sets,
                          mint  |-> [address |-> address, amount |-> 1],
                          event |-> [tokenAddress |-> address,
                                     chainId |-> chainId,
                                     imageCount |-> newCount.value]]

\* verifyAndStore(address, chainId, proof) of the batch-reducer contract:
\* it reads no counter and dispatches an action
verifyAndStoreDispatch(isNew, address, chainId, proofValid) ==
  IF ~(chainId <= CHAIN_COUNT - 1)
  THEN Failed("Invalid chain ID, it must be 0-24", <<>>)
  ELSE IF ~proofValid THEN Failed("proof.verify", <<>>)
  ELSE IF ~isNew THEN Failed("account.isNew", <<>>)
  ELSE [ok     |-> TRUE,
        sets   |-> <<>>,
        mint   |-> [address |-> address, amount |-> 1],
        action |-> ImageMintAction(address, chainId)]

\* a mutant: the forest is approved
approveBase_approves(forest) == [ok |-> TRUE, sets |-> <<>>]

\* approveBase(forest), the same in every variant of the contract
approveBase(forest) ==
  Failed("transfers of tokens are not allowed, change the owner instead",
         <<>>)

\* a mutant: the winner is computed from the counters before the batch
processBatch_winnerBefore(state, batch) ==
  LET currentCounters == state.chainCounters
      newCounters == processActionsInCircuit(batch, state.actionState,
                                             currentCounters)
  IN  IF ~newCounters.ok THEN Failed(newCounters.error, <<>>)
      ELSE
        LET winner == computeWinner(currentCounters)
        IN  IF ~winner.ok THEN Failed(winner.error, <<>>)
            ELSE [ok    |-> TRUE,
                  sets  |-> [chainCounters |-> newCounters.field,
                             currentWinner |-> winner.winnerChainId,
                             winnerLength  |-> winner.winnerLength,
                             actionState   |-> state.actionState
                                                 + realActions(batch)],
                  event |-> newCounters.field]

\* processBatch(batch, proof) of the batch-reducer contract
processBatch(state, batch) ==
  LET currentCounters == state.chainCounters
      newCounters == processActionsInCircuit(batch, state.actionState,
                                             currentCounters)
  IN  IF ~newCounters.ok THEN Failed(newCounters.error, <<>>)
      ELSE
        LET winner == computeWinner(newCounters.field)
        IN  IF ~winner.ok THEN Failed(winner.error, <<>>)
            ELSE [ok    |-> TRUE,
                  sets  |-> [chainCounters |-> newCounters.field,
                             currentWinner |-> winner.winnerChainId,
                             winnerLength  |-> winner.winnerLength,
                             actionState   |-> state.actionState
                                                 + realActions(batch)],
                  event |-> newCounters.field]

\* a mutant: the same wait after every failed attempt
backoffDelay_fixed(n) == 1000

\* 1000 * Math.pow(2, attempt)
backoffDelay(n) == 1000 * (2 ^ n)

(***************************************************************************)
(* State                                                                   *)
(***************************************************************************)
VARIABLES
  \* prove-authenticity session
  imageData,     \* the content bytes being committed to
  pc,            \* "start", "hashed", "ready", "done"
  prep,          \* what hashUntilFinalRound returned
  tamper,        \* how the caller departed from the honest inputs
  roundInputs,   \* FinalRoundInputs, the private input
  publicInput,   \* AuthenticityInputs
  finalHash,     \* the eight words the method recomputed
  proof,         \* the proof verifyAuthenticity returned, or NoProof
  \* commitment codec session
  codecOrigin,   \* the constructor call that started the session
  codecObj,      \* the commitment object held, or None
  codecOut,      \* what the last accessor returned, or None
  codecSteps,    \* the calls made so far, in order
  \* packed counter session
  bankStart,     \* the packed field the session started from
  bank,          \* the packed field, as the contract would store it
  bankCall,      \* the last call made on it, or None
  incs,          \* per chain id, the increments that succeeded so far
  bankCalls,     \* the number of calls made in the slot session
  \* contract session
  contract,      \* "direct", "batch" (which contract is deployed), "off"
  chainCounters, \* @state chainCounters
  currentWinner, \* @state currentWinner
  winnerLength,  \* @state winnerLength
  actionState,   \* how many of the dispatched actions are reduced
  actions,       \* the actions dispatched, in order
  batches,       \* what the last prepareBatches returned
  balances,      \* per address, the tokens its token account holds
  minted,        \* the number of successful verifyAndStore calls
  deployed,      \* the chainCounters the session started from
  zkCall,        \* the last contract call, or None
  \* a call of BatchReducerUtils.prepareBatches(retries)
  retries,       \* the argument
  attempt,       \* the loop variable
  prepPc,        \* "loop", "caught", "returned", "threw" ("off": no call)
  prepLog,       \* the attempts made and the waits, in order
  prepRet        \* what the call returned or threw, or None

hashVars == <<imageData, pc, prep, tamper, roundInputs, publicInput,
              finalHash, proof>>

codecVars == <<codecOrigin, codecObj, codecOut, codecSteps>>

bankVars == <<bankStart, bank, bankCall, incs, bankCalls>>

zkVars == <<contract, chainCounters, currentWinner, winnerLength,
            actionState, actions, batches, balances, minted, deployed,
            zkCall>>

retryVars == <<retries, attempt, prepPc, prepLog, prepRet>>

None == <<>>
NoProof == [made |-> FALSE]

(***************************************************************************)
(* Bounds and sampled inputs of the session                                *)
(***************************************************************************)
MaxInputLen == 120
\* bits of a word that a tampering caller flips (1 = least significant)
FlipBits == {1, 17, 32}
\* key pairs
Keys == {"creator", "other"}

HelloWorld == <<72, 101, 108, 108, 111, 44, 32, 87, 111, 114, 108, 100, 33>>

\* a byte pattern of n bytes
patternBytes(n) == Tup([p \in 1..n |-> (p * 37 + n * 11 + 97) % 256])

InputLengths ==
  {n \in 0..MaxInputLen : n % 16 = 0 \/ n \in {1, 55, 56, 63, 119, 120}}

Inputs == {patternBytes(n) : n \in InputLengths} \cup {HelloWorld}

AllOnes32 == Tup([i \in 1..32 |-> 1])
Zero32 == Tup([i \in 1..32 |-> 0])
\* words a caller may put in every lane of a hand-made witness
ExtremeWords == {Zero32, AllOnes32, Word(<<32768, 0>>), Word(<<0, 1>>)}

flipBit(w, j) == Tup([i \in 1..32 |-> IF i = j THEN 1 - w[i] ELSE w[i]])

\* amounts by which a caller moves messageWord up and roundConstant down
ShiftWords == {Word(<<0, 1>>), Word(<<32768, 0>>), AllOnes32}

\* the witness with messageWord + d and roundConstant - d, modulo 2^32
\* (-d is the complement of d, plus one)
shiftedInputs(inputs, d) ==
  LET minusD == addMod32(BitNot(d), Word(<<0, 1>>))
  IN  [inputs EXCEPT !.messageWord = addMod32(@, d),
                     !.roundConstant = addMod32(@, minusD)]

\* the departures from the honest call that the session tries
Tampers ==
  {[kind |-> "none"]}
  \cup {[kind |-> "shifted", d |-> w] : w \in ShiftWords}
  \cup {[kind |-> k, lane |-> l, bit |-> j] :
          k \in {"state", "initialState"}, l \in 1..8, j \in FlipBits}
  \cup {[kind |-> k, bit |-> j] :
          k \in {"messageWord", "roundConstant"}, j \in FlipBits}
  \cup {[kind |-> "commitment", byte |-> q] : q \in {1, 16, 32}}
  \cup {[kind |-> "signer"], [kind |-> "signedOther"]}
  \cup {[kind |-> "extreme", s |-> ws, i |-> wi, m |-> wm, k |-> wk] :
          ws \in ExtremeWords, wi \in ExtremeWords,
          wm \in {Zero32, AllOnes32}, wk \in {Zero32, AllOnes32}}

\* the private input a caller builds from the prepared values
tamperedRoundInputs(pr, t) ==
  LET honest == [state         |-> pr.penultimateState,
                 initialState  |-> pr.finalRoundInputs.initialState,
                 messageWord   |-> pr.finalRoundInputs.messageWord,
                 roundConstant |-> pr.finalRoundInputs.roundConstant]
  IN  CASE t.kind = "state" ->
             [honest EXCEPT !.state[t.lane] = flipBit(@, t.bit)]
        [] t.kind = "initialState" ->
             [honest EXCEPT !.initialState[t.lane] = flipBit(@, t.bit)]
        [] t.kind = "messageWord" ->
             [honest EXCEPT !.messageWord = flipBit(@, t.bit)]
        [] t.kind = "roundConstant" ->
             [honest EXCEPT !.roundConstant = flipBit(@, t.bit)]
        [] t.kind = "shifted" -> shiftedInputs(honest, t.d)
        [] t.kind = "extreme" ->
             [state         |-> <<t.s, t.s, t.s, t.s, t.s, t.s, t.s, t.s>>,
              initialState  |-> <<t.i, t.i, t.i, t.i, t.i, t.i, t.i, t.i>>,
              messageWord   |-> t.m,
              roundConstant |-> t.k]
        [] OTHER -> honest

\* the public input a caller builds
tamperedPublicInput(pr, t) ==
  LET honestCommitment == fromHex(pr.expectedHash)
      commitment ==
        IF t.kind = "commitment"
        THEN [honestCommitment EXCEPT ![t.byte] = (@ + 1) % 256]
        ELSE honestCommitment
  IN  [commitment |-> commitment,
       signature  |-> CASE t.kind = "signer" -> signHash(commitment, "other")
                        [] t.kind = "signedOther" ->
                             signHash(honestCommitment \o <<0>>, "creator")
                        [] OTHER -> signHash(commitment, "creator"),
       publicKey  |-> "creator"]

(***************************************************************************)
(* The session: prepare off-circuit, then prove in-circuit                 *)
(***************************************************************************)
HashInit ==
  /\ imageData \in Inputs
  /\ pc = "start"
  /\ prep = None
  /\ tamper = None
  /\ roundInputs = None
  /\ publicInput = None
  /\ finalHash = None
  /\ proof = NoProof

\* hashUntilFinalRound(imageData)
HashUntilFinalRound ==
  /\ pc = "start"
  /\ prep' = hashUntilFinalRound(imageData)
  /\ pc' = "hashed"
  /\ UNCHANGED <<imageData, tamper, roundInputs, publicInput, finalHash,
                 proof>>
  /\ UNCHANGED <<codecVars, bankVars, zkVars, retryVars>>

\* the caller builds AuthenticityInputs and FinalRoundInputs
BuildInputs ==
  /\ pc = "hashed"
  /\ \E t \in Tampers :
       /\ tamper' = t
       /\ roundInputs' = tamperedRoundInputs(prep, t)
       /\ publicInput' = tamperedPublicInput(prep, t)
  /\ pc' = "ready"
  /\ UNCHANGED <<imageData, prep, finalHash, proof>>
  /\ UNCHANGED <<codecVars, bankVars, zkVars, retryVars>>

\* AuthenticityProgram.verifyAuthenticity(publicInput, roundInputs)
VerifyAuthenticity ==
  /\ pc = "ready"
  /\ finalHash' = finalHashOf(roundInputs)
  /\ proof' = IF verifyAuthenticity(publicInput, roundInputs)
              THEN [made |-> TRUE, publicInput |-> publicInput]
              ELSE NoProof
  /\ pc' = "done"
  /\ UNCHANGED <<imageData, prep, tamper, roundInputs, publicInput>>
  /\ UNCHANGED <<codecVars, bankVars, zkVars, retryVars>>

(***************************************************************************)
(* Sampled inputs of the codec session                                     *)
(***************************************************************************)
MaxCodecSteps == 4

limbMax == <<65535, 65535, 65535, 65535, 65535, 65535, 65535, 65535,
             0, 0, 0, 0, 0, 0, 0, 0>>
\* 0x0123456789abcdef0123456789abcdef and 0xfedcba9876543210fedcba9876543210
limbTestHigh == <<52719, 35243, 17767, 291, 52719, 35243, 17767, 291,
                  0, 0, 0, 0, 0, 0, 0, 0>>
limbTestLow == <<12816, 30292, 47768, 65244, 12816, 30292, 47768, 65244,
                 0, 0, 0, 0, 0, 0, 0, 0>>
\* field elements offered as limbs: in range, at the bound, beyond it
LimbSamples ==
  {bigZero, bigOfNat(1), limbMax, limbTestHigh, limbTestLow,
   max128,
   <<1, 0, 0, 0, 0, 0, 0, 0, 1, 0, 0, 0, 0, 0, 0, 0>>,
   <<52719, 35243, 17767, 291, 52719, 35243, 17767, 291,
     0, 0, 0, 0, 0, 0, 0, 16384>>}

\* the secp256r1 base point
curveGx == <<49814, 55448, 14661, 62625, 13216, 11755, 32129, 30467,
             16626, 25508, 59109, 63676, 16967, 57644, 53746, 27415>>
curveGy == <<20981, 14271, 16488, 52150, 24270, 27441, 13143, 11214,
             40470, 31759, 60234, 36583, 32667, 65050, 17122, 20451>>
coordinateMax == <<65535, 65535, 65535, 65535, 65535, 65535, 65535, 65535,
                   65535, 65535, 65535, 65535, 65535, 65535, 65535, 65535>>
CoordinateSamples ==
  {bigZero, bigOfNat(258), curveGx, curveGy, coordinateMax, max128, limbMax}

\* 32-byte sequences a commitment is built on directly
ByteSamples ==
  {Tup([p \in 1..32 |-> 0]), Tup([p \in 1..32 |-> 255]),
   Tup([p \in 1..32 |-> (p * 37 + 11) % 256]),
   Tup([p \in 1..32 |-> IF p = 1 THEN 128 ELSE IF p = 17 THEN 1 ELSE 0]),
   Tup([p \in 1..32 |-> IF p \in {16, 32} THEN 255 ELSE p])}

(***************************************************************************)
(* The codec session: build a commitment, read it, rebuild it              *)
(***************************************************************************)
CodecIdle ==
  /\ codecOrigin = None
  /\ codecObj = None
  /\ codecOut = None
  /\ codecSteps = <<>>

HashIdle ==
  /\ imageData = <<>>
  /\ pc = "off"
  /\ prep = None
  /\ tamper = None
  /\ roundInputs = None
  /\ publicInput = None
  /\ finalHash = None
  /\ proof = NoProof

shaObject(bytes) == [type |-> "sha", bytes |-> bytes]
secpObject(xBytes, yBytes) ==
  [type |-> "secp", xBytes |-> xBytes, yBytes |-> yBytes]

\* SHACommitment.fromTwoFields(high128, low128)
FromTwoFields ==
  /\ codecSteps = <<>>
  /\ \E high128 \in LimbSamples, low128 \in LimbSamples :
       LET r == fromTwoFields(high128, low128)
       IN  /\ codecOrigin' = [op |-> "fromTwoFields", high128 |-> high128,
                              low128 |-> low128, ok |-> r.ok]
           /\ codecObj' = IF r.ok THEN shaObject(r.bytes) ELSE None
  /\ codecOut' = None
  /\ codecSteps' = <<"fromTwoFields">>
  /\ UNCHANGED <<hashVars, bankVars, zkVars, retryVars>>

\* Secp256r1Commitment.fromFourFields with limb a in one position and
\* limb b in the other three
FromFourFields ==
  /\ codecSteps = <<>>
  /\ \E a \in LimbSamples, b \in {bigZero, limbTestLow, limbMax},
        pos \in 1..4 :
       LET f == [i \in 1..4 |-> IF i = pos THEN a ELSE b]
           r == fromFourFields(f[1], f[2], f[3], f[4])
       IN  /\ codecOrigin' = [op |-> "fromFourFields", fields |-> Tup(f),
                              ok |-> r.ok]
           /\ codecObj' = IF r.ok THEN secpObject(r.xBytes, r.yBytes)
                          ELSE None
  /\ codecOut' = None
  /\ codecSteps' = <<"fromFourFields">>
  /\ UNCHANGED <<hashVars, bankVars, zkVars, retryVars>>

\* Secp256r1Commitment.fromPublicKey(publicKey)
FromPublicKey ==
  /\ codecSteps = <<>>
  /\ \E x \in CoordinateSamples, y \in CoordinateSamples :
       LET c == fromPublicKey([x |-> x, y |-> y])
       IN  /\ codecOrigin' = [op |-> "fromPublicKey", x |-> x, y |-> y,
                              ok |-> TRUE]
           /\ codecObj' = secpObject(c.xBytes, c.yBytes)
  /\ codecOut' = None
  /\ codecSteps' = <<"fromPublicKey">>
  /\ UNCHANGED <<hashVars, bankVars, zkVars, retryVars>>

\* new SHACommitment({ bytes })
NewSHACommitment ==
  /\ codecSteps = <<>>
  /\ \E bytes \in ByteSamples :
       /\ codecOrigin' = [op |-> "newSHACommitment", bytes |-> bytes,
                          ok |-> TRUE]
       /\ codecObj' = shaObject(bytes)
  /\ codecOut' = None
  /\ codecSteps' = <<"newSHACommitment">>
  /\ UNCHANGED <<hashVars, bankVars, zkVars, retryVars>>

\* new Secp256r1Commitment({ xBytes, yBytes })
NewSecp256r1Commitment ==
  /\ codecSteps = <<>>
  /\ \E xBytes \in ByteSamples, yBytes \in ByteSamples :
       /\ codecOrigin' = [op |-> "newSecp256r1Commitment",
                          xBytes |-> xBytes, yBytes |-> yBytes, ok |-> TRUE]
       /\ codecObj' = secpObject(xBytes, yBytes)
  /\ codecOut' = None
  /\ codecSteps' = <<"newSecp256r1Commitment">>
  /\ UNCHANGED <<hashVars, bankVars, zkVars, retryVars>>

CanCall ==
  /\ codecObj # None
  /\ Len(codecSteps) < MaxCodecSteps

\* commitment.toTwoFields()
ToTwoFields ==
  /\ CanCall
  /\ codecObj.type = "sha"
  /\ codecOut' = [op |-> "toTwoFields"] @@ toTwoFields(codecObj.bytes)
  /\ codecSteps' = Append(codecSteps, "toTwoFields")
  /\ UNCHANGED <<codecOrigin, codecObj>>
  /\ UNCHANGED <<hashVars, bankVars, zkVars, retryVars>>

\* commitment.toFourFields()
ToFourFields ==
  /\ CanCall
  /\ codecObj.type = "secp"
  /\ codecOut' = [op |-> "toFourFields"] @@ toFourFields(codecObj)
  /\ codecSteps' = Append(codecSteps, "toFourFields")
  /\ UNCHANGED <<codecOrigin, codecObj>>
  /\ UNCHANGED <<hashVars, bankVars, zkVars, retryVars>>

\* commitment.toPublicKey()
ToPublicKey ==
  /\ CanCall
  /\ codecObj.type = "secp"
  /\ codecOut' = [op |-> "toPublicKey"] @@ toPublicKey(codecObj)
  /\ codecSteps' = Append(codecSteps, "toPublicKey")
  /\ UNCHANGED <<codecOrigin, codecObj>>
  /\ UNCHANGED <<hashVars, bankVars, zkVars, retryVars>>

\* the limbs just read are passed to fromTwoFields / fromFourFields and
\* the commitment it returns replaces the one held
RebuildFromFields ==
  /\ CanCall
  /\ codecOut # None
  /\ codecOut.op \in {"toTwoFields", "toFourFields"}
  /\ LET r == IF codecOut.op = "toTwoFields"
              THEN fromTwoFields(codecOut.high128, codecOut.low128)
              ELSE fromFourFields(codecOut.xHigh128, codecOut.xLow128,
                                  codecOut.yHigh128, codecOut.yLow128)
     IN  /\ codecObj' = IF ~r.ok THEN None
                        ELSE IF codecOut.op = "toTwoFields"
                        THEN shaObject(r.bytes)
                        ELSE secpObject(r.xBytes, r.yBytes)
         /\ codecSteps' = Append(codecSteps,
                                 IF codecOut.op = "toTwoFields"
                                 THEN "fromTwoFields" ELSE "fromFourFields")
  /\ UNCHANGED <<codecOrigin, codecOut>>
  /\ UNCHANGED <<hashVars, bankVars, zkVars, retryVars>>

(***************************************************************************)
(* The counter session: increments from the all-zero bank                  *)
(***************************************************************************)
\* increments tried on chains other than chain 0
MaxSideIncrements == 1
\* chain ids the session increments
ChainIdSamples == {0, 24}

\* every counter at 1022 and the four spare bits 250..253 set
bankNearFull ==
  <<64510, 49135, 65279, 61435, 65471, 64510, 49135, 65279,
    61435, 65471, 64510, 49135, 65279, 61435, 65471, 16382>>
\* counter j at (41 * j + 1000) mod 1024: counter 0 at 1000, 24 at 960
bankMixed ==
  <<18408, 50080, 35864, 58068, 16845, 25904, 55333, 54378,
    26613, 37858, 34424, 60586, 7356, 60695, 58870, 960>>

\* every counter at 1023, the spare bits clear
bankFull ==
  <<65535, 65535, 65535, 65535, 65535, 65535, 65535, 65535,
    65535, 65535, 65535, 65535, 65535, 65535, 65535, 1023>>

BankSamples == {bigZero, bankNearFull, bankMixed, bankFull}

BankIdle ==
  /\ bankStart = bigZero
  /\ bank = bigZero
  /\ bankCall = None
  /\ incs = [j \in 0..(CHAIN_COUNT - 1) |-> 0]
  /\ bankCalls = 0

BankInit ==
  /\ bankStart \in BankSamples
  /\ bank = bankStart
  /\ bankCall = None
  /\ incs = [j \in 0..(CHAIN_COUNT - 1) |-> 0]
  /\ bankCalls = 0

RECURSIVE sumIncs(_, _, _)
\* f[from] + ... + f[to]
sumIncs(f, from, to) ==
  IF from > to THEN 0
  ELSE IF from = to THEN f[from]
  ELSE LET mid == (from + to) \div 2
       IN  sumIncs(f, from, mid) + sumIncs(f, mid + 1, to)

\* incrementChain(bank, chainId); a rejected call leaves the bank alone
IncrementChain ==
  /\ \E chainId \in ChainIdSamples :
       /\ chainId # 0 =>
            sumIncs(incs, 0, CHAIN_COUNT - 1) - incs[0] < MaxSideIncrements
       /\ LET r == incrementChain(bank, chainId)
          IN  /\ bank' = IF r.ok THEN r.field ELSE bank
              /\ bankCall' = [op |-> "incrementChain", chainId |-> chainId,
                              ok |-> r.ok, before |-> bank]
              /\ incs' = IF r.ok THEN [incs EXCEPT ![chainId] = @ + 1]
                         ELSE incs
  /\ UNCHANGED <<bankStart, bankCalls>>
  /\ UNCHANGED <<hashVars, codecVars, zkVars, retryVars>>

(***************************************************************************)
(* The slot session: the operations of PackedImageChainCounters called on  *)
(* sampled banks with sampled chain ids and lengths, the returned bank     *)
(* stored as the contract stores it                                        *)
(***************************************************************************)
\* calls made in one session
MaxBankCalls == 2

\* chain ids a caller may pass (a UInt8): three valid ids, the first
\* invalid one and the largest
SlotIdSamples == {0, 5, 24, 25, 255}

\* lengths a caller may pass (a UInt32)
LengthSamples == {0, 7, 1023, 1024, 65535}

\* the field element 2^254, which is below the field modulus and does not
\* fit 254 bits
bankBeyond254 == <<0, 0, 0, 0, 0, 0, 0, 0, 0, 0, 0, 0, 0, 0, 0, 16384>>

SlotBankSamples == BankSamples \cup {bankBeyond254}

SlotInit ==
  /\ bankStart \in SlotBankSamples
  /\ bank = bankStart
  /\ bankCall = None
  /\ incs = [j \in 0..(CHAIN_COUNT - 1) |-> 0]
  /\ bankCalls = 0

\* what a call leaves behind: the record of the call, and the returned
\* bank stored when the call returned one
SlotCall(op, chainId, newLength, ret, stores) ==
  /\ bankCalls < MaxBankCalls
  /\ bankCalls' = bankCalls + 1
  /\ bankCall' = [op |-> op, chainId |-> chainId, newLength |-> newLength,
                  before |-> bank, ret |-> ret]
  /\ bank' = IF stores /\ ret.ok THEN ret.field ELSE bank
  /\ UNCHANGED <<bankStart, incs>>
  /\ UNCHANGED <<hashVars, codecVars, zkVars, retryVars>>

GetChainLength ==
  \E chainId \in SlotIdSamples :
    SlotCall("getChainLength", chainId, 0,
             getChainLength(bank, chainId), FALSE)

SetChainLength ==
  \E chainId \in SlotIdSamples, newLength \in LengthSamples :
    SlotCall("setChainLength", chainId, newLength,
             setChainLength(bank, chainId, newLength), TRUE)

IncrementChainAt ==
  \E chainId \in SlotIdSamples :
    SlotCall("incrementChain", chainId, 0,
             incrementChain(bank, chainId), TRUE)

IsChainFull ==
  \E chainId \in SlotIdSamples :
    SlotCall("isChainFull", chainId, 0, isChainFull(bank, chainId), FALSE)

GetTotalImageCount ==
  SlotCall("getTotalImageCount", 0, 0, getTotalImageCount(bank), FALSE)

FindLongestChain ==
  SlotCall("findLongestChain", 0, 0, findLongestChain(bank), FALSE)

(***************************************************************************)
(* The contract session: mints, and the reduction of their actions         *)
(***************************************************************************)
MaxMints == 3
Addresses == {"alice", "bob", "carol"}
\* the verifyAndStore calls tried: address, chainId, whether the proof
\* verifies
MintCalls ==
  {[address |-> "alice", chainId |-> 0,  proofValid |-> TRUE],
   [address |-> "bob",   chainId |-> 5,  proofValid |-> TRUE],
   [address |-> "carol", chainId |-> 0,  proofValid |-> TRUE],
   [address |-> "alice", chainId |-> 25, proofValid |-> TRUE],
   [address |-> "bob",   chainId |-> 0,  proofValid |-> FALSE]}
\* the chainId that the dummy slots of a prepared batch carry
DummyChainIds == {0, 24}

\* chain 0 holds 1022 images and chain 5 holds 1023
countersNearFull == <<1022, 0, 0, 4092, 0, 0, 0, 0, 0, 0, 0, 0, 0, 0, 0, 0>>
CounterSamples == {bigZero, countersNearFull}

\* four actions dispatched earlier, for accounts outside Addresses
PendingSample ==
  <<ImageMintAction("earlier", 0), ImageMintAction("earlier", 0),
    ImageMintAction("earlier", 5), ImageMintAction("earlier", 24)>>

ZkIdle ==
  /\ contract = "off"
  /\ chainCounters = bigZero
  /\ currentWinner = 0
  /\ winnerLength = 0
  /\ actionState = 0
  /\ actions = <<>>
  /\ batches = <<>>
  /\ balances = [a \in Addresses |-> 0]
  /\ minted = 0
  /\ deployed = bigZero
  /\ zkCall = None

\* a deployed contract: the counters, the winner fields as the last
\* processBatch (or init) left them, no token yet for the sampled addresses
ZkInit ==
  /\ contract \in {"direct", "batch"}
  /\ deployed \in CounterSamples
  /\ chainCounters = deployed
  /\ currentWinner = IF contract = "batch"
                     THEN computeWinner(deployed).winnerChainId ELSE 0
  /\ winnerLength = IF contract = "batch"
                    THEN computeWinner(deployed).winnerLength ELSE 0
  /\ actionState = 0
  /\ actions \in IF contract = "batch" /\ deployed = bigZero
                 THEN {<<>>, PendingSample} ELSE {<<>>}
  /\ batches = <<>>
  /\ balances = [a \in Addresses |-> 0]
  /\ minted = 0
  /\ zkCall = None

\* the state of the contract, as a call finds it
zkState ==
  [chainCounters |-> chainCounters, currentWinner |-> currentWinner,
   winnerLength |-> winnerLength, actionState |-> actionState]

\* verifyAndStore on the contract that counts directly
VerifyAndStore ==
  /\ contract = "direct"
  /\ minted < MaxMints
  /\ \E call \in MintCalls :
       LET address == call.address
           chainId == call.chainId
           proofValid == call.proofValid
           r == verifyAndStore(zkState, balances[address] = 0, address,
                               chainId, proofValid)
       IN  /\ chainCounters' = commit(r, "chainCounters", chainCounters)
           /\ balances' = IF r.ok
                          THEN [balances EXCEPT ![address] = @ + r.mint.amount]
                          ELSE balances
           /\ minted' = IF r.ok THEN minted + 1 ELSE minted
           /\ zkCall' = [op |-> "verifyAndStore", address |-> address,
                         chainId |-> chainId, proofValid |-> proofValid,
                         before |-> zkState, ret |-> r]
  /\ UNCHANGED <<contract, currentWinner, winnerLength, actionState, actions,
                 batches, deployed>>
  /\ UNCHANGED <<hashVars, codecVars, bankVars, retryVars>>

\* verifyAndStore on the batch-reducer contract
VerifyAndStoreDispatch ==
  /\ contract = "batch"
  /\ minted < MaxMints
  /\ \E call \in MintCalls :
       LET address == call.address
           chainId == call.chainId
           proofValid == call.proofValid
           r == verifyAndStoreDispatch(balances[address] = 0, address,
                                       chainId, proofValid)
       IN  /\ chainCounters' = commit(r, "chainCounters", chainCounters)
           /\ actions' = IF r.ok THEN Append(actions, r.action) ELSE actions
           /\ balances' = IF r.ok
                          THEN [balances EXCEPT ![address] = @ + r.mint.amount]
                          ELSE balances
           /\ minted' = IF r.ok THEN minted + 1 ELSE minted
           /\ zkCall' = [op |-> "verifyAndStore", address |-> address,
                         chainId |-> chainId, proofValid |-> proofValid,
                         before |-> zkState, ret |-> r]
  /\ UNCHANGED <<contract, currentWinner, winnerLength, actionState, batches,
                 deployed>>
  /\ UNCHANGED <<hashVars, codecVars, bankVars, retryVars>>

\* BatchReducerUtils.prepareBatches(), off chain
PrepareBatches ==
  /\ contract = "batch"
  /\ \E dummyChainId \in DummyChainIds :
       batches' = prepareBatches(actions, actionState, dummyChainId)
  /\ zkCall' = [op |-> "prepareBatches", before |-> zkState,
                ret |-> [ok |-> TRUE, sets |-> <<>>]]
  /\ UNCHANGED <<contract, chainCounters, currentWinner, winnerLength,
                 actionState, actions, balances, minted, deployed>>
  /\ UNCHANGED <<hashVars, codecVars, bankVars, retryVars>>

\* processBatch(batch, proof) with one of the prepared batches
ProcessBatch ==
  /\ contract = "batch"
  /\ \E b \in 1..Len(batches) :
       LET r == processBatch(zkState, batches[b])
       IN  /\ chainCounters' = commit(r, "chainCounters", chainCounters)
           /\ currentWinner' = commit(r, "currentWinner", currentWinner)
           /\ winnerLength' = commit(r, "winnerLength", winnerLength)
           /\ actionState' = commit(r, "actionState", actionState)
           /\ zkCall' = [op |-> "processBatch", batch |-> batches[b],
                         before |-> zkState, ret |-> r]
  /\ UNCHANGED <<contract, actions, batches, balances, minted, deployed>>
  /\ UNCHANGED <<hashVars, codecVars, bankVars, retryVars>>

\* approveBase(forest) with a forest that moves one token from a holder to
\* another sampled address
ApproveBase ==
  /\ contract \in {"direct", "batch"}
  /\ \E from \in {"alice", "bob"} :
       LET to == IF from = "alice" THEN "bob" ELSE "alice"
           forest == [from |-> from, to |-> to, amount |-> 1]
           r == approveBase(forest)
       IN  /\ balances[from] >= forest.amount
           /\ balances' = IF r.ok
                          THEN [balances EXCEPT ![from] = @ - forest.amount,
                                                ![to] = @ + forest.amount]
                          ELSE balances
           /\ zkCall' = [op |-> "approveBase", forest |-> forest,
                         before |-> zkState, ret |-> r]
  /\ UNCHANGED <<contract, chainCounters, currentWinner, winnerLength,
                 actionState, actions, batches, minted, deployed>>
  /\ UNCHANGED <<hashVars, codecVars, bankVars, retryVars>>

(***************************************************************************)
(* A call of BatchReducerUtils.prepareBatches(retries)                     *)
(***************************************************************************)
MaxRetries == 4
\* what chainBatchReducer.prepareBatches() may return: the prepared batches
PreparedSamples == {<<>>, <<"batch 1">>, <<"batch 1", "batch 2">>}
\* what it may throw
PrepareErrors == {"fetch failed", "archive node behind"}

RetryIdle ==
  /\ retries = 0
  /\ attempt = 0
  /\ prepPc = "off"
  /\ prepLog = <<>>
  /\ prepRet = None

\* the call starts: attempt = 0, at the loop test
RetryInit ==
  /\ retries \in 0..MaxRetries
  /\ attempt = 0
  /\ prepPc = "loop"
  /\ prepLog = <<>>
  /\ prepRet = None

\* attempt < retries: chainBatchReducer.prepareBatches() is awaited; it
\* returns batches, which the call returns at once, or it throws
PrepareAttempt ==
  /\ prepPc = "loop"
  /\ attempt < retries
  /\ \/ \E prepared \in PreparedSamples :
          /\ prepLog' = Append(prepLog, [kind |-> "attempt",
                                         attempt |-> attempt, ok |-> TRUE])
          /\ prepPc' = "returned"
          /\ prepRet' = [batches |-> prepared]
     \/ \E error \in PrepareErrors :
          /\ prepLog' = Append(prepLog, [kind |-> "attempt",
                                         attempt |-> attempt, ok |-> FALSE,
                                         error |-> error])
          /\ prepPc' = "caught"
          /\ prepRet' = prepRet
  /\ UNCHANGED <<retries, attempt>>
  /\ UNCHANGED <<hashVars, codecVars, bankVars, zkVars>>

\* in the catch block, attempt === retries - 1: the call throws
PrepareRethrow ==
  /\ prepPc = "caught"
  /\ attempt = retries - 1
  /\ prepPc' = "threw"
  /\ prepRet' = [message |-> "Failed to prepare batches after N attempts",
                N |-> retries,
                error |-> prepLog[Len(prepLog)].error]
  /\ UNCHANGED <<retries, attempt, prepLog>>
  /\ UNCHANGED <<hashVars, codecVars, bankVars, zkVars>>

\* in the catch block, not the last attempt: the wait, then attempt++
PrepareBackoff ==
  /\ prepPc = "caught"
  /\ attempt # retries - 1
  /\ prepLog' = Append(prepLog, [kind |-> "wait",
                                 ms |-> backoffDelay(attempt)])
  /\ attempt' = attempt + 1
  /\ prepPc' = "loop"
  /\ UNCHANGED <<retries, prepRet>>
  /\ UNCHANGED <<hashVars, codecVars, bankVars, zkVars>>

\* the loop test fails: `return []`
PrepareReturnEmpty ==
  /\ prepPc = "loop"
  /\ ~(attempt < retries)
  /\ prepPc' = "returned"
  /\ prepRet' = [batches |-> <<>>]
  /\ UNCHANGED <<retries, attempt, prepLog>>
  /\ UNCHANGED <<hashVars, codecVars, bankVars, zkVars>>

vars == <<hashVars, codecVars, bankVars, zkVars, retryVars>>

Init == HashInit /\ CodecIdle /\ BankIdle /\ ZkIdle /\ RetryIdle

Next ==
  \/ HashUntilFinalRound
  \/ BuildInputs
  \/ VerifyAuthenticity

Spec == Init /\ [][Next]_vars

InitBank == HashIdle /\ CodecIdle /\ BankInit /\ ZkIdle /\ RetryIdle

NextBank == IncrementChain

SpecBank == InitBank /\ [][NextBank]_vars

InitCodec == HashIdle /\ CodecIdle /\ BankIdle /\ ZkIdle /\ RetryIdle

NextCodec ==
  \/ FromTwoFields
  \/ FromFourFields
  \/ FromPublicKey
  \/ NewSHACommitment
  \/ NewSecp256r1Commitment
  \/ ToTwoFields
  \/ ToFourFields
  \/ ToPublicKey
  \/ RebuildFromFields

SpecCodec == InitCodec /\ [][NextCodec]_vars

InitSlots == HashIdle /\ CodecIdle /\ SlotInit /\ ZkIdle /\ RetryIdle

NextSlots ==
  \/ GetChainLength
  \/ SetChainLength
  \/ IncrementChainAt
  \/ IsChainFull
  \/ GetTotalImageCount
  \/ FindLongestChain

SpecSlots == InitSlots /\ [][NextSlots]_vars

InitZk == HashIdle /\ CodecIdle /\ BankIdle /\ ZkInit /\ RetryIdle

NextZk ==
  \/ VerifyAndStore
  \/ VerifyAndStoreDispatch
  \/ PrepareBatches
  \/ ProcessBatch
  \/ ApproveBase

SpecZk == InitZk /\ [][NextZk]_vars

InitRetry == HashIdle /\ CodecIdle /\ BankIdle /\ ZkIdle /\ RetryInit

NextRetry ==
  \/ PrepareAttempt
  \/ PrepareRethrow
  \/ PrepareBackoff
  \/ PrepareReturnEmpty

SpecRetry == InitRetry /\ [][NextRetry]_vars

\* the calls that can be rejected: one checked constructor of the codec,
\* or a session on a packed field, or a session on a contract; the first
\* call decides which
InitCalls == InitCodec \/ InitSlots \/ InitZk

CodecStep ==
  /\ contract = "off"
  /\ bankCalls = 0
  /\ (FromTwoFields \/ FromFourFields)

SlotStep == contract = "off" /\ codecOrigin = None /\ NextSlots

ZkStep == contract # "off" /\ NextZk

NextCalls ==
  \/ CodecStep
  \/ SlotStep
  \/ ZkStep

SpecCalls == InitCalls /\ [][NextCalls]_vars

(***************************************************************************)
(* Claims about the split hash and the final-round verifier                *)
(***************************************************************************)
honestWitnessHash ==
  performFinalSHA256Round(prep.penultimateState,
                          prep.finalRoundInputs.initialState,
                          prep.finalRoundInputs.messageWord,
                          prep.finalRoundInputs.roundConstant)

\* C1: for every input (empty, one block, several blocks) the final round
\* applied to the witness of hashUntilFinalRound gives the eight words of
\* the full 64-round SHA-256 of the input, and the final round applied to
\* the 63-round state of the last block gives processSHA256Block of that
\* block on the chaining state that entered it.
C1_SplitEqualsFull ==
  pc = "hashed" =>
    LET padded == padSHA256Message(imageData)
        lastBlock == blockAt(padded, (Len(padded) \div 64) - 1)
    IN  /\ honestWitnessHash = sha256(imageData)
        /\ honestWitnessHash =
             processSHA256Block(prep.finalRoundInputs.initialState,
                                lastBlock)

\* a multi-block input has been prepared: the chaining state that enters
\* the last block is not the initial hash value
C1_Witness ==
  /\ pc = "hashed"
  /\ Len(imageData) = 119
  /\ prep.finalRoundInputs.initialState # INITIAL_HASH

\* byte k (1..4, most significant first) of lane i of the recomputed hash
laneByte(words, i, k) == BitsVal(words[i], 8 * (4 - k) + 1, 8 * (4 - k) + 8)

commitmentEqualsRecomputed ==
  \A i \in 1..8 : \A k \in 1..4 :
    publicInput.commitment[4 * (i - 1) + k] = laneByte(finalHash, i, k)

\* C2: verifyAuthenticity produces a proof only when the recomputed words,
\* as 4 big-endian bytes each, equal the commitment byte for byte and the
\* signature verifies for (commitment, publicKey); otherwise no proof.
C2_FailClosed ==
  pc = "done" =>
    /\ proof.made <=>
         /\ commitmentEqualsRecomputed
         /\ publicInput.signature.msg = publicInput.commitment
         /\ publicInput.signature.signer = publicInput.publicKey
    /\ proof.made => proof.publicInput = publicInput

\* the hash matches but another key signed: no proof
C2_Witness ==
  /\ pc = "done"
  /\ tamper.kind = "signer"
  /\ commitmentEqualsRecomputed
  /\ ~proof.made

WitnessFields == {"state", "initialState", "messageWord", "roundConstant"}

\* C3: with the honest digest and signature, a witness that differs from
\* the honest one in exactly one field is rejected.
C3_TamperedWitnessRejected ==
  (pc = "done" /\ tamper.kind \in WitnessFields) => ~proof.made

\* the last lane of initialState was changed and the call was rejected
C3_Witness ==
  /\ pc = "done"
  /\ tamper.kind = "initialState"
  /\ tamper.lane = 8
  /\ roundInputs.state = prep.penultimateState
  /\ roundInputs.initialState # prep.finalRoundInputs.initialState
  /\ publicInput.commitment = fromHex(prep.expectedHash)
  /\ ~proof.made

inRange128(x) == \A i \in 9..16 : x[i] = 0

\* bit j (0 = least significant) of a 16-digit number
bitOfBig(x, j) == (x[(j \div 16) + 1] \div (2 ^ (j % 16))) % 2

\* bit j of 32 bytes read as one 256-bit big-endian integer
bitOfBytes(bytes, j) == (bytes[32 - (j \div 8)] \div (2 ^ (j % 8))) % 2

startedBy(op) == codecSteps # <<>> /\ codecSteps[1] = op

lastStep == codecSteps[Len(codecSteps)]

\* C5: for limbs high, low below 2^128, fromTwoFields(high, low) returns a
\* commitment and its toTwoFields() is exactly (high, low).
C5_TwoFieldsRoundTrip ==
  (/\ startedBy("fromTwoFields")
   /\ inRange128(codecOrigin.high128)
   /\ inRange128(codecOrigin.low128))
  => /\ codecOrigin.ok
     /\ codecSteps = <<"fromTwoFields", "toTwoFields">> =>
          /\ codecOut.high128 = codecOrigin.high128
          /\ codecOut.low128 = codecOrigin.low128

\* the corner (2^128 - 1, 2^128 - 1) has gone there and back
C5_Witness ==
  /\ codecSteps = <<"fromTwoFields", "toTwoFields">>
  /\ codecOrigin.high128 = limbMax
  /\ codecOrigin.low128 = limbMax
  /\ codecOut.high128 = limbMax

\* C6: fromTwoFields and fromFourFields return a commitment exactly when
\* every limb is below 2^128; on rejection no commitment exists.
C6_BoundaryRejection ==
  Len(codecSteps) = 1 =>
    /\ startedBy("fromTwoFields") =>
         codecOrigin.ok <=> /\ inRange128(codecOrigin.high128)
                            /\ inRange128(codecOrigin.low128)
    /\ startedBy("fromFourFields") =>
         codecOrigin.ok <=> \A i \in 1..4 : inRange128(codecOrigin.fields[i])
    /\ ~codecOrigin.ok => codecObj = None

\* fromTwoFields(2^128, 0) was rejected
C6_Witness ==
  /\ codecSteps = <<"fromTwoFields">>
  /\ codecOrigin.high128 = max128
  /\ codecOrigin.low128 = bigZero
  /\ ~codecOrigin.ok
  /\ codecObj = None

\* C7: the 32 bytes of fromTwoFields(high, low), read as a 256-bit
\* big-endian integer, are high * 2^128 + low: bits 0..127 are low's and
\* bits 128..255 are high's.
C7_ByteLayout ==
  (/\ codecSteps = <<"fromTwoFields">>
   /\ inRange128(codecOrigin.high128)
   /\ inRange128(codecOrigin.low128))
  => /\ codecObj # None
     /\ Len(codecObj.bytes) = 32
     /\ \A j \in 0..255 :
          bitOfBytes(codecObj.bytes, j) =
            IF j < 128 THEN bitOfBig(codecOrigin.low128, j)
            ELSE bitOfBig(codecOrigin.high128, j - 128)

\* the test vector 0x0123...cdef, 0xfedc...3210 and its hex form
C7_Witness ==
  /\ codecSteps = <<"fromTwoFields">>
  /\ codecOrigin.high128 = limbTestHigh
  /\ codecOrigin.low128 = limbTestLow
  /\ codecObj # None
  /\ toHex(codecObj.bytes) =
       <<"0", "1", "2", "3", "4", "5", "6", "7",
         "8", "9", "a", "b", "c", "d", "e", "f",
         "0", "1", "2", "3", "4", "5", "6", "7",
         "8", "9", "a", "b", "c", "d", "e", "f",
         "f", "e", "d", "c", "b", "a", "9", "8",
         "7", "6", "5", "4", "3", "2", "1", "0",
         "f", "e", "d", "c", "b", "a", "9", "8",
         "7", "6", "5", "4", "3", "2", "1", "0">>

originObject ==
  IF codecOrigin.op = "newSHACommitment"
  THEN shaObject(codecOrigin.bytes)
  ELSE secpObject(codecOrigin.xBytes, codecOrigin.yBytes)

\* C9: for a commitment built on any 32 bytes (per coordinate), the limbs
\* read by toTwoFields / toFourFields are below 2^128, and the commitment
\* rebuilt from them has exactly the original bytes.
C9_BytesRoundTrip ==
  (startedBy("newSHACommitment") \/ startedBy("newSecp256r1Commitment")) =>
    /\ (codecOut # None /\ codecOut.op = "toTwoFields") =>
         inRange128(codecOut.high128) /\ inRange128(codecOut.low128)
    /\ (codecOut # None /\ codecOut.op = "toFourFields") =>
         /\ inRange128(codecOut.xHigh128) /\ inRange128(codecOut.xLow128)
         /\ inRange128(codecOut.yHigh128) /\ inRange128(codecOut.yLow128)
    /\ codecObj = originObject

\* two different byte patterns were split into four limbs and rebuilt
C9_Witness ==
  /\ codecSteps = <<"newSecp256r1Commitment", "toFourFields",
                    "fromFourFields">>
  /\ codecOrigin.xBytes[1] = 48
  /\ codecOrigin.yBytes[1] = 255
  /\ codecObj = secpObject(codecOrigin.xBytes, codecOrigin.yBytes)

(***************************************************************************)
(* Claims about the packed counters                                        *)
(***************************************************************************)
\* floor(field / 2^(10 j)) mod 2^10, by arithmetic on the digits
slotValue(field, j) ==
  LET d == (10 * j) \div 16
      o == (10 * j) % 16
      lo == field[d + 1] \div (2 ^ o)
      hi == IF d + 2 <= 16 THEN (field[d + 2] % 1024) * (2 ^ (16 - o)) ELSE 0
  IN  (lo + hi) % 1024

RECURSIVE sumSlots(_, _, _)
\* the sum of slots from..to
sumSlots(field, from, to) ==
  IF from > to THEN 0
  ELSE IF from = to THEN slotValue(field, from)
  ELSE LET mid == (from + to) \div 2
       IN  sumSlots(field, from, mid) + sumSlots(field, mid + 1, to)

\* C10: counters saturate and never wrap.  For chain ids 0..24,
\* incrementChain succeeds exactly when the counter is below 1023 and
\* then the counter is one more; every counter equals its starting value
\* plus the number of successful increments of it and never exceeds 1023
\* (so from the all-zero bank counters never incremented stay 0 and
\* counter 0 accepts 1023 increments), isChainFull(bank, 0) holds exactly
\* when counter 0 is 1023, an increment at 1023 is rejected and leaves the
\* bank as it was, and getTotalImageCount is the starting total plus the
\* number of successful increments.
C10_SaturatingIncrement ==
  /\ \A j \in 0..(CHAIN_COUNT - 1) :
       /\ getChainLength(bank, j).value = slotValue(bankStart, j) + incs[j]
       /\ slotValue(bankStart, j) + incs[j] <= 1023
  /\ isChainFull(bank, 0).value <=> slotValue(bankStart, 0) + incs[0] = 1023
  /\ getTotalImageCount(bank).value =
       sumSlots(bankStart, 0, CHAIN_COUNT - 1) + sumIncs(incs, 0, CHAIN_COUNT - 1)
  /\ bankCall # None =>
       LET before == getChainLength(bankCall.before, bankCall.chainId).value
       IN  /\ bankCall.ok <=> before < 1023
           /\ bankCall.ok =>
                getChainLength(bank, bankCall.chainId).value = before + 1
           /\ ~bankCall.ok => bank = bankCall.before

\* from the all-zero bank counter 0 took 1023 increments and the 1024th
\* was rejected
C10_Witness ==
  /\ bankStart = bigZero
  /\ bankCall # None
  /\ bankCall.chainId = 0
  /\ ~bankCall.ok
  /\ incs[0] = 1023
  /\ \A j \in 1..(CHAIN_COUNT - 1) : incs[j] = 0
  /\ isChainFull(bank, 0).value
  /\ ~isChainFull(bankStart, 0).value
  /\ \A j \in 1..(CHAIN_COUNT - 1) : getChainLength(bank, j).value = 0
  /\ getTotalImageCount(bank).value = 1023

(***************************************************************************)
(* Claims about the operations of the packed counters                      *)
(***************************************************************************)
\* the last call of the slot session was `op` and returned a bank
returnedBank(ops) ==
  /\ bankCall # None
  /\ bankCall.op \in ops
  /\ bankCall.ret.ok

\* C11: slot independence.  When setChainLength or incrementChain, called
\* with a chain id in 0..24, returns a bank, getChainLength of every other
\* chain in 0..24 is what it was before the call and so are bits 250..253
\* of the scalar.
C11_SlotIndependence ==
  (returnedBank({"setChainLength", "incrementChain"})
     /\ bankCall.chainId \in 0..(CHAIN_COUNT - 1)) =>
    /\ \A j \in (0..(CHAIN_COUNT - 1)) \ {bankCall.chainId} :
         getChainLength(bankCall.ret.field, j) =
           getChainLength(bankCall.before, j)
    /\ \A b \in 250..253 :
         bitOfBig(bankCall.ret.field, b) = bitOfBig(bankCall.before, b)

\* setChainLength(bank, 5, 7) on the bank with every counter at 1022 and
\* the spare bits set: counter 5 changed, its neighbours did not
C11_Witness ==
  /\ returnedBank({"setChainLength"})
  /\ bankCall.before = bankNearFull
  /\ bankCall.chainId = 5
  /\ bankCall.newLength = 7
  /\ slotValue(bankCall.ret.field, 5) = 7
  /\ slotValue(bankCall.ret.field, 4) = 1022
  /\ slotValue(bankCall.ret.field, 6) = 1022
  /\ bitOfBig(bankCall.ret.field, 253) = 1

\* C12: a chain id outside 0..24 is rejected by the operations themselves:
\* getChainLength, setChainLength, incrementChain and isChainFull called
\* with an id in 25..255 fail instead of returning a value or a bank.
C12_IdOutOfRangeRejected ==
  (/\ bankCall # None
   /\ bankCall.op \in {"getChainLength", "setChainLength",
                       "incrementChain", "isChainFull"}
   /\ bankCall.chainId \notin 0..(CHAIN_COUNT - 1)) =>
    ~bankCall.ret.ok

\* C13: wire layout.  For every bank of at most 254 bits and every chain
\* id in 0..24, getChainLength(bank, id) is floor(bank / 2^(10 id)) mod
\* 2^10: slot i occupies bits 10i .. 10i+9, least significant first.  It
\* is stated of the bank held and of the bank and id of the last call.
C13_WireLayout ==
  /\ fitsBits254(bank) =>
       \A j \in 0..(CHAIN_COUNT - 1) :
         getChainLength(bank, j) = [ok |-> TRUE, value |-> slotValue(bank, j)]
  /\ (/\ bankCall # None
      /\ bankCall.op = "getChainLength"
      /\ bankCall.chainId \in 0..(CHAIN_COUNT - 1)
      /\ fitsBits254(bankCall.before)) =>
       bankCall.ret =
         [ok |-> TRUE, value |-> slotValue(bankCall.before, bankCall.chainId)]

\* getChainLength(bank, 24) on the mixed bank, where counter 24 is 960 and
\* counter 23 is not
C13_Witness ==
  /\ bankCall # None
  /\ bankCall.op = "getChainLength"
  /\ bankCall.before = bankMixed
  /\ bankCall.chainId = 24
  /\ bankCall.ret.ok
  /\ bankCall.ret.value = 960
  /\ slotValue(bankMixed, 23) # 960

\* C14: setChainLength rejects every new length above 1023, whatever the
\* chain id, and the bank held stays as it was; on a bank of at most 254
\* bits and a chain id in 0..24 it accepts every new length in 0..1023,
\* and the counter then reads the new length.
C14_LengthBound ==
  (bankCall # None /\ bankCall.op = "setChainLength") =>
    /\ bankCall.newLength > 1023 =>
         /\ bankCall.ret = Rejected("Length exceeds maximum, it must be <= 1023")
         /\ bank = bankCall.before
    /\ (/\ bankCall.newLength <= 1023
        /\ bankCall.chainId \in 0..(CHAIN_COUNT - 1)
        /\ fitsBits254(bankCall.before)) =>
         /\ bankCall.ret.ok
         /\ slotValue(bankCall.ret.field, bankCall.chainId) =
              bankCall.newLength
         /\ bank = bankCall.ret.field

\* from the all-zero bank: setChainLength(bank, 5, 1023) was accepted, then
\* setChainLength(bank, 5, 1024) was rejected and counter 6 is still 0
C14_Witness ==
  /\ bankStart = bigZero
  /\ bankCalls = 2
  /\ bankCall.op = "setChainLength"
  /\ bankCall.chainId = 5
  /\ bankCall.newLength = 1024
  /\ ~bankCall.ret.ok
  /\ slotValue(bank, 5) = 1023
  /\ slotValue(bank, 6) = 0

\* the largest of the 25 counters of a bank, read from its digits
maxSlot(field) ==
  CHOOSE v \in {slotValue(field, j) : j \in 0..(CHAIN_COUNT - 1)} :
    \A j \in 0..(CHAIN_COUNT - 1) : slotValue(field, j) <= v

\* the lowest chain id whose counter is the largest
lowestMaxIndex(field) ==
  CHOOSE j \in 0..(CHAIN_COUNT - 1) :
    /\ slotValue(field, j) = maxSlot(field)
    /\ \A k \in 0..(j - 1) : slotValue(field, k) < maxSlot(field)

\* C15: findLongestChain(bank) returns the largest of the 25 counters and
\* the lowest chain id that holds it; for the all-zero bank it returns
\* (0, 0).  It is stated of the bank held and of the last call.
C15_FindLongestChain ==
  /\ fitsBits254(bank) =>
       findLongestChain(bank) =
         [ok |-> TRUE, longestChainId |-> lowestMaxIndex(bank),
          longestChainLength |-> maxSlot(bank)]
  /\ bank = bigZero =>
       findLongestChain(bank) =
         [ok |-> TRUE, longestChainId |-> 0, longestChainLength |-> 0]
  /\ (/\ bankCall # None
      /\ bankCall.op = "findLongestChain"
      /\ fitsBits254(bankCall.before)) =>
       bankCall.ret =
         [ok |-> TRUE, longestChainId |-> lowestMaxIndex(bankCall.before),
          longestChainLength |-> maxSlot(bankCall.before)]

\* counter 0 was saturated from the all-zero bank and findLongestChain
\* returned (0, 1023)
C15_Witness ==
  /\ bankStart = bigZero
  /\ bankCalls = 2
  /\ bankCall.op = "findLongestChain"
  /\ slotValue(bankCall.before, 0) = 1023
  /\ bankCall.ret.ok
  /\ bankCall.ret.longestChainId = 0
  /\ bankCall.ret.longestChainLength = 1023

RECURSIVE sumLengths(_, _, _)
\* getChainLength(field, from) + ... + getChainLength(field, to)
sumLengths(field, from, to) ==
  IF from > to THEN 0
  ELSE IF from = to THEN getChainLength(field, from).value
  ELSE LET mid == (from + to) \div 2
       IN  sumLengths(field, from, mid) + sumLengths(field, mid + 1, to)

\* C16: getTotalImageCount(bank) succeeds on every bank and is the sum of
\* getChainLength(bank, i) over i = 0..24 (which is the sum of the 25
\* slots of the scalar); from the all-zero bank it is the number of
\* increments that succeeded.
C16_TotalImageCount ==
  LET total == getTotalImageCount(bank)
  IN  /\ total = [ok |-> TRUE, value |-> sumLengths(bank, 0, CHAIN_COUNT - 1)]
      /\ total.value = sumSlots(bank, 0, CHAIN_COUNT - 1)
      /\ bankStart = bigZero =>
           total.value = sumIncs(incs, 0, CHAIN_COUNT - 1)
      /\ bankStart = bankFull => total.value = CHAIN_COUNT * MAX_PER_CHAIN

\* from the all-zero bank, 1023 increments of chain 0 and one of chain 24
\* succeeded and the total is 1024
C16_Witness ==
  /\ bankStart = bigZero
  /\ incs[0] = 1023
  /\ incs[24] = 1
  /\ bankCall # None
  /\ bankCall.ok
  /\ getTotalImageCount(bank) = [ok |-> TRUE, value |-> 1024]

(***************************************************************************)
(* Claims about padding and the known vector                               *)
(***************************************************************************)
\* the blocks an input of n bytes occupies by itself
blocksOf(n) == (n + 63) \div 64

\* C17: padding.  For the n bytes of imageData, padSHA256Message returns
\* the least multiple of 64 that is at least n + 9 bytes: the input, 0x80
\* at offset n, zero bytes, and 8n as a 64-bit big-endian integer in the
\* last 8 bytes.  The empty input gives one block; an input with n mod 64
\* in 56..63, or n a positive multiple of 64, gives one block more than
\* the input occupies.
C17_Padding ==
  LET n == Len(imageData)
      padded == padSHA256Message(imageData)
      total == Len(padded)
  IN  /\ total % 64 = 0
      /\ total >= n + 9
      /\ total - 64 < n + 9
      /\ \A p \in 1..n : padded[p] = imageData[p]
      /\ padded[n + 1] = 128
      /\ \A p \in (n + 2)..(total - 8) : padded[p] = 0
      /\ \A p \in (total - 7)..(total - 4) : padded[p] = 0
      /\ padded[total - 3] * 16777216 + padded[total - 2] * 65536
           + padded[total - 1] * 256 + padded[total] = 8 * n
      /\ n = 0 => total = 64
      /\ (n % 64 \in 56..63 \/ (n > 0 /\ n % 64 = 0)) =>
           total \div 64 = blocksOf(n) + 1
      /\ n % 64 \in 1..55 => total \div 64 = blocksOf(n)

\* an input of 56 bytes was hashed: the padding took a second block
C17_Witness ==
  /\ pc = "hashed"
  /\ Len(imageData) = 56
  /\ Len(padSHA256Message(imageData)) = 128
  /\ padSHA256Message(imageData)[57] = 128
  /\ padSHA256Message(imageData)[127] = 1
  /\ padSHA256Message(imageData)[128] = 192

\* dffd6021bb2bd5b0af676290809ec3a53191dd81c7f70a4b28688a362182986f
HelloWorldDigest ==
  <<"d", "f", "f", "d", "6", "0", "2", "1", "b", "b", "2", "b", "d", "5",
    "b", "0", "a", "f", "6", "7", "6", "2", "9", "0", "8", "0", "9", "e",
    "c", "3", "a", "5", "3", "1", "9", "1", "d", "d", "8", "1", "c", "7",
    "f", "7", "0", "a", "4", "b", "2", "8", "6", "8", "8", "a", "3", "6",
    "2", "1", "8", "2", "9", "8", "6", "f">>

\* C18: known vector.  For the 13 bytes of "Hello, World!" the full path
\* (hashImageOffCircuit, and the expectedHash that hashUntilFinalRound
\* returns) gives the hex string dffd6021...2182986f, and so does the split
\* path: the eight lanes of the final round on the honest witness, each
\* printed as 8 lowercase hex digits.
C18_KnownVector ==
  (imageData = HelloWorld /\ pc \in {"hashed", "ready", "done"}) =>
    /\ hashImageOffCircuit(imageData) = HelloWorldDigest
    /\ prep.expectedHash = HelloWorldDigest
    /\ hashHex(performFinalSHA256Round(
                 prep.penultimateState,
                 prep.finalRoundInputs.initialState,
                 prep.finalRoundInputs.messageWord,
                 prep.finalRoundInputs.roundConstant)) = HelloWorldDigest
    /\ (pc = "done" /\ tamper.kind = "none") =>
         hashHex(finalHash) = HelloWorldDigest

\* the program proved "Hello, World!" on the honest witness
C18_Witness ==
  /\ imageData = HelloWorld
  /\ pc = "done"
  /\ tamper.kind = "none"
  /\ proof.made
  /\ Len(finalHash) = 8
  /\ Len(prep.expectedHash) = 64

(***************************************************************************)
(* Claims about the contract and the batch reduction                       *)
(***************************************************************************)
\* the real actions of a batch that name chain c
realFor(batch, c) ==
  Cardinality({i \in 1..batchSize :
                 ~batch.slots[i].isDummy /\ batch.slots[i].action.chainId = c})

\* the actions dispatched so far that name chain c
dispatchedFor(c) ==
  Cardinality({i \in 1..Len(actions) : actions[i].chainId = c})

\* C19: batch reduction counts exactly the real actions.  After a
\* processBatch that succeeded, every counter c of chainCounters is its
\* value before the call plus the number of non-dummy actions of the batch
\* whose chainId is c (a dummy slot adds nothing, whatever chainId it
\* carries); and when no dispatched action is left to reduce, counter c is
\* its value at deployment plus the number of actions dispatched for c.
C19_BatchCountsRealActions ==
  contract = "batch" =>
    /\ (zkCall # None /\ zkCall.op = "processBatch" /\ zkCall.ret.ok) =>
         \A c \in 0..(CHAIN_COUNT - 1) :
           getChainLength(chainCounters, c).value
             = getChainLength(zkCall.before.chainCounters, c).value
                 + realFor(zkCall.batch, c)
    /\ actionState = Len(actions) =>
         \A c \in 0..(CHAIN_COUNT - 1) :
           getChainLength(chainCounters, c).value
             = getChainLength(deployed, c).value + dispatchedFor(c)

\* mints to chains 0, 5, 0 on a fresh contract were reduced in one batch
\* whose two dummy slots carry chainId 0: counter 0 is 2, counter 5 is 1
C19_Witness ==
  /\ contract = "batch"
  /\ deployed = bigZero
  /\ Len(actions) = 3
  /\ actions[1].chainId = 0 /\ actions[2].chainId = 5 /\ actions[3].chainId = 0
  /\ actionState = 3
  /\ zkCall # None /\ zkCall.op = "processBatch" /\ zkCall.ret.ok
  /\ realActions(zkCall.batch) = 3
  /\ zkCall.batch.slots[5].isDummy
  /\ zkCall.batch.slots[5].action.chainId = 0
  /\ getChainLength(chainCounters, 0).value = 2
  /\ getChainLength(chainCounters, 5).value = 1

\* what a rejected call returns: the failure, and nothing else
returnsNothing(ret) == ~ret.ok /\ DOMAIN ret = {"ok", "error"}

\* C20: every call is all-or-nothing.  A rejected incrementChain or
\* setChainLength returns no field and the field held is the one before the
\* call; a rejected fromTwoFields or fromFourFields returns no bytes and no
\* commitment object exists; after a verifyAndStore or processBatch that
\* failed an assertion chainCounters, currentWinner and winnerLength are
\* what they were before the call, whatever the method had staged.
C20_AllOrNothing ==
  /\ (bankCall # None /\ bankCall.op \in {"incrementChain", "setChainLength"}
        /\ ~bankCall.ret.ok) =>
       /\ returnsNothing(bankCall.ret)
       /\ bank = bankCall.before
  /\ (codecOrigin # None /\ codecOrigin.op = "fromTwoFields"
        /\ ~codecOrigin.ok) =>
       /\ returnsNothing(fromTwoFields(codecOrigin.high128,
                                       codecOrigin.low128))
       /\ codecObj = None
  /\ (codecOrigin # None /\ codecOrigin.op = "fromFourFields"
        /\ ~codecOrigin.ok) =>
       /\ returnsNothing(fromFourFields(codecOrigin.fields[1],
                                        codecOrigin.fields[2],
                                        codecOrigin.fields[3],
                                        codecOrigin.fields[4]))
       /\ codecObj = None
  /\ (zkCall # None /\ zkCall.op \in {"verifyAndStore", "processBatch"}
        /\ ~zkCall.ret.ok) =>
       /\ chainCounters = zkCall.before.chainCounters
       /\ currentWinner = zkCall.before.currentWinner
       /\ winnerLength = zkCall.before.winnerLength
       /\ actionState = zkCall.before.actionState

\* a verifyAndStore of the direct contract failed on account.isNew, after
\* it had staged the incremented counters
C20_Witness ==
  /\ contract = "direct"
  /\ zkCall # None
  /\ zkCall.op = "verifyAndStore"
  /\ ~zkCall.ret.ok
  /\ zkCall.ret.error = "account.isNew"
  /\ "chainCounters" \in DOMAIN zkCall.ret.sets
  /\ zkCall.ret.sets.chainCounters # chainCounters
  /\ balances[zkCall.address] = 1

\* the last call was verifyAndStore on the contract that counts directly
directCall ==
  /\ contract = "direct"
  /\ zkCall # None
  /\ zkCall.op = "verifyAndStore"

\* C21: in the direct-counter contract verifyAndStore rejects a chainId
\* above 24 with 'Invalid chain ID' and a chain whose counter is 1023 (with
\* 'Chain has reached maximum capacity' when nothing else is wrong); when
\* it succeeds the stored chainCounters has counter chainId one higher,
\* every other counter and the bits above the counters unchanged, and the
\* imageCount emitted is the new value of counter chainId.
C21_DirectVerifyAndStore ==
  directCall =>
    LET id == zkCall.chainId
        old == zkCall.before.chainCounters
        r == zkCall.ret
    IN  /\ id > CHAIN_COUNT - 1 =>
             /\ ~r.ok
             /\ r.error = "Invalid chain ID, it must be 0-24"
        /\ (id <= CHAIN_COUNT - 1 /\ slotValue(old, id) = MAX_PER_CHAIN) =>
             /\ ~r.ok
             /\ (zkCall.proofValid =>
                   r.error
                     = "Chain has reached maximum capacity (1023 images)")
        /\ r.ok =>
             /\ id <= CHAIN_COUNT - 1
             /\ slotValue(old, id) < MAX_PER_CHAIN
             /\ \A c \in 0..(CHAIN_COUNT - 1) :
                  slotValue(chainCounters, c)
                    = slotValue(old, c) + (IF c = id THEN 1 ELSE 0)
             /\ chainCounters[16] \div 1024 = old[16] \div 1024
             /\ r.event.imageCount = slotValue(chainCounters, id)
             /\ r.event.chainId = id

\* chain 0 went from 1022 to 1023 and the mint event carries 1023
C21_Witness ==
  /\ directCall
  /\ zkCall.ret.ok
  /\ zkCall.chainId = 0
  /\ slotValue(zkCall.before.chainCounters, 0) = 1022
  /\ slotValue(chainCounters, 0) = 1023
  /\ slotValue(chainCounters, 5) = 1023
  /\ zkCall.ret.event.imageCount = 1023

(***************************************************************************)
(* Claims about the witness of the final round                             *)
(***************************************************************************)
\* 0xc67178f2
K63 == Word(<<50801, 30962>>)

\* C22: the witness that hashUntilFinalRound records.  initialState is the
\* chaining state that enters the last padded block: the initial hash
\* values for a single block, otherwise the earlier blocks compressed in
\* order; penultimateState is the working variables after rounds 0..62 of
\* the last block (one more round on it gives the variables after all 64);
\* messageWord is w[63] of the last block; roundConstant is 0xc67178f2.
C22_RecordedWitness ==
  pc = "hashed" =>
    LET padded == padSHA256Message(imageData)
        nBlocks == Len(padded) \div 64
        w == messageSchedule(blockAt(padded, nBlocks - 1))
        first == processSHA256Block(INITIAL_HASH, blockAt(padded, 0))
        initialState == prep.finalRoundInputs.initialState
    IN  /\ nBlocks \in 1..3
        /\ nBlocks = 1 => initialState = INITIAL_HASH
        /\ nBlocks = 2 => initialState = first
        /\ nBlocks = 3 =>
             initialState = processSHA256Block(first, blockAt(padded, 1))
        /\ prep.penultimateState = jsRounds(initialState, w, 0, 63)
        /\ jsRound(prep.penultimateState, K[64], w[64])
             = jsRounds(initialState, w, 0, 64)
        /\ prep.finalRoundInputs.messageWord = w[64]
        /\ prep.finalRoundInputs.roundConstant = K63
        /\ K[64] = K63

\* a three-block input was prepared
C22_Witness ==
  /\ pc = "hashed"
  /\ Len(imageData) = 120
  /\ Len(padSHA256Message(imageData)) = 192
  /\ prep.finalRoundInputs.initialState # INITIAL_HASH
  /\ prep.finalRoundInputs.roundConstant = K63
  /\ Len(prep.penultimateState) = 8

(***************************************************************************)
(* Claims about the retries of prepareBatches                              *)
(***************************************************************************)
\* the attempts logged so far, and those of them that failed
attemptsMade == {i \in 1..Len(prepLog) : prepLog[i].kind = "attempt"}
attemptsFailed == {i \in attemptsMade : ~prepLog[i].ok}
waitsMade == {i \in 1..Len(prepLog) : prepLog[i].kind = "wait"}

winnerIsLongest ==
  /\ currentWinner \in 0..(CHAIN_COUNT - 1)
  /\ winnerLength = maxSlot(chainCounters)
  /\ slotValue(chainCounters, currentWinner) = winnerLength

\* C24: in the batch-reducer contract, in every state reached by
\* verifyAndStore and processBatch calls, winnerLength is the maximum of the
\* 25 counters of chainCounters and currentWinner is a chain that holds it;
\* and no step makes winnerLength smaller.
C24_WinnerIsMaximum ==
  /\ [](contract = "batch" => winnerIsLongest)
  /\ [][contract = "batch" => winnerLength' >= winnerLength]_vars

\* a batch with one mint to chain 5 was reduced on a fresh contract: the
\* winner moved from (0, 0) to (5, 1)
C24_Witness ==
  /\ contract = "batch"
  /\ zkCall # None /\ zkCall.op = "processBatch" /\ zkCall.ret.ok
  /\ zkCall.before.winnerLength = 0
  /\ zkCall.before.currentWinner = 0
  /\ currentWinner = 5
  /\ winnerLength = 1

\* C25: read-after-write.  For a bank (a scalar of at most 254 bits), an id
\* in 0..24 and a value v in 0..1023: reading chain id of
\* setChainLength(bank, id, v) gives v, and writing back what
\* getChainLength(bank, id) read gives the bank itself, spare bits included.
C25_ReadAfterWrite ==
  /\ (returnedBank({"setChainLength"}) /\ bankCall.chainId < CHAIN_COUNT) =>
       LET read == getChainLength(bankCall.ret.field, bankCall.chainId)
       IN  /\ read.ok
           /\ read.value = bankCall.newLength
           /\ bankCall.newLength \in 0..MAX_PER_CHAIN
  /\ (bankCall # None /\ bankCall.op = "getChainLength" /\ bankCall.ret.ok
        /\ bankCall.chainId < CHAIN_COUNT) =>
       LET written == setChainLength(bankCall.before, bankCall.chainId,
                                     bankCall.ret.value)
       IN  /\ written.ok
           /\ written.field = bankCall.before

\* chain 24 of the bank with the spare bits set was read (1022): writing
\* the value back gives the same scalar
C25_Witness ==
  /\ bankCall # None
  /\ bankCall.op = "getChainLength"
  /\ bankCall.before = bankNearFull
  /\ bankCall.chainId = 24
  /\ bankCall.ret.ok
  /\ bankCall.ret.value = 1022
  /\ setChainLength(bankNearFull, 24, 1022).field = bankNearFull

\* C26: in the direct-counter contract the stored chainCounters stays below
\* 2^250, and across every verifyAndStore call, accepted or rejected, each
\* of the 25 counters either keeps its value or goes up by one, at most one
\* of them moves, and none passes 1023.
C26_CountersMonotone ==
  /\ [](contract = "direct" => chainCounters[16] < 1024)
  /\ [][contract = "direct" =>
          /\ \A c \in 0..(CHAIN_COUNT - 1) :
               /\ slotValue(chainCounters', c) - slotValue(chainCounters, c)
                    \in {0, 1}
               /\ slotValue(chainCounters', c) <= MAX_PER_CHAIN
          /\ sumSlots(chainCounters', 0, CHAIN_COUNT - 1)
               - sumSlots(chainCounters, 0, CHAIN_COUNT - 1) \in {0, 1}
       ]_vars

\* three mints on a fresh direct contract: to chains 0, 5 and 0
C26_Witness ==
  /\ contract = "direct"
  /\ deployed = bigZero
  /\ minted = 3
  /\ slotValue(chainCounters, 0) = 2
  /\ slotValue(chainCounters, 5) = 1
  /\ sumSlots(chainCounters, 0, CHAIN_COUNT - 1) = 3

(***************************************************************************)
(* Claims about what the final-round verifier leaves free                  *)
(***************************************************************************)
\* C27: the verifier does not bind the witness to one value.  Moving
\* messageWord up by d and roundConstant down by d (modulo 2^32) changes
\* neither the eight words recomputed nor the verdict, for any inputs; a
\* witness moved this way from the honest one is accepted for the honest
\* digest although its roundConstant is not K[63].
C27_WitnessNotBound ==
  pc = "done" =>
    /\ \A d \in ShiftWords :
         /\ finalHashOf(shiftedInputs(roundInputs, d)) = finalHash
         /\ verifyAuthenticity(publicInput, shiftedInputs(roundInputs, d))
              = proof.made
    /\ tamper.kind = "shifted" =>
         /\ proof.made
         /\ roundInputs.roundConstant # K[64]
         /\ roundInputs.messageWord # prep.finalRoundInputs.messageWord
         /\ hashHex(finalHash) = prep.expectedHash

\* "Hello, World!" was proved with messageWord + 1 and roundConstant - 1
C27_Witness ==
  /\ pc = "done"
  /\ imageData = HelloWorld
  /\ tamper.kind = "shifted"
  /\ tamper.d = Word(<<0, 1>>)
  /\ proof.made
  /\ roundInputs.roundConstant = Word(<<50801, 30961>>)

(***************************************************************************)
(* Claims about a chain that received more actions than it can count       *)
(***************************************************************************)
\* the real actions of the batch take some counter of `counters` past 1023
overflows(batch, counters) ==
  \E c \in 0..(CHAIN_COUNT - 1) :
    slotValue(counters, c) + realFor(batch, c) > MAX_PER_CHAIN

\* the reduction cannot go on: the next action to reduce is for a chain
\* at 1023, or the batch prepared for the position of the reduction holds
\* an action that its chain cannot count
reductionBlocked ==
  /\ contract = "batch"
  /\ \/ /\ actionState < Len(actions)
        /\ slotValue(chainCounters, actions[actionState + 1].chainId)
             = MAX_PER_CHAIN
     \/ \E b \in 1..Len(batches) :
          /\ batches[b].from = actionState
          /\ overflows(batches[b], chainCounters)

\* C28: in the batch-reducer contract verifyAndStore accepts a mint and
\* dispatches its action whatever the counters and the pending actions are
\* (it needs a chain id up to 24, a valid proof and a new token account,
\* nothing else); processBatch on the batch whose real actions take a
\* counter past 1023 fails on incrementChain's assertion; and once the
\* batch prepared for the position of the reduction is such a batch, or
\* the next action to reduce is for a chain at 1023, chainCounters,
\* currentWinner, winnerLength and the position of the reduction never
\* change again.
C28_FullChainBlocksReduction ==
  /\ [][(contract = "batch" /\ zkCall'.op = "verifyAndStore") =>
          /\ zkCall'.ret.ok = (/\ zkCall'.chainId <= CHAIN_COUNT - 1
                               /\ zkCall'.proofValid
                               /\ balances[zkCall'.address] = 0)
          /\ zkCall'.ret.ok =>
               actions' = Append(actions,
                                 ImageMintAction(zkCall'.address,
                                                 zkCall'.chainId))]_vars
  /\ []((/\ contract = "batch"
         /\ zkCall # None
         /\ zkCall.op = "processBatch"
         /\ zkCall.batch.from = zkCall.before.actionState
         /\ overflows(zkCall.batch, zkCall.before.chainCounters)) =>
          /\ ~zkCall.ret.ok
          /\ zkCall.ret.error = "Cannot exceed 1023 images")
  /\ [][reductionBlocked =>
          /\ reductionBlocked'
          /\ UNCHANGED <<chainCounters, currentWinner, winnerLength,
                         actionState>>]_vars

\* chain 5 held 1023 images; a mint for chain 5 was accepted all the same,
\* and the batch with its action has just been rejected
C28_Witness ==
  /\ contract = "batch"
  /\ deployed = countersNearFull
  /\ slotValue(chainCounters, 5) = MAX_PER_CHAIN
  /\ Len(actions) >= 1
  /\ actions[1] = ImageMintAction("bob", 5)
  /\ balances["bob"] = 1
  /\ zkCall # None
  /\ zkCall.op = "processBatch"
  /\ zkCall.batch.from = 0
  /\ ~zkCall.batch.slots[1].isDummy
  /\ zkCall.batch.slots[1].action.chainId = 5
  /\ ~zkCall.ret.ok
  /\ zkCall.ret.error = "Cannot exceed 1023 images"
  /\ reductionBlocked
  /\ chainCounters = deployed

\* the chain ids that the dummy slots of a batch carry
dummyChains(batch) ==
  {batch.slots[i].action.chainId :
     i \in {j \in 1..batchSize : batch.slots[j].isDummy}}

\* the last call was processBatch with a batch that starts where the
\* reduction stands
reducedInOrder ==
  /\ contract = "batch"
  /\ zkCall # None
  /\ zkCall.op = "processBatch"
  /\ zkCall.batch.from = zkCall.before.actionState

\* C29: the reduction evaluates incrementChain, assertion included, for
\* every slot of a batch, dummy or not.  A batch is rejected with
\* incrementChain's message whenever a dummy slot carries the chainId of a
\* counter that is at 1023 when the slot runs (at 1023 before the batch, or
\* brought there by the real actions of the batch), also when no real
\* action is for a full chain; a batch is accepted exactly when neither a
\* real action nor a dummy slot meets a counter at 1023.
C29_DummySlotOnFullChain ==
  reducedInOrder =>
    LET batch == zkCall.batch
        old == zkCall.before.chainCounters
        atSlot(c) == slotValue(old, c) + realFor(batch, c)
    IN  /\ (\E c \in dummyChains(batch) :
              c \in 0..(CHAIN_COUNT - 1) /\ atSlot(c) >= MAX_PER_CHAIN) =>
             /\ ~zkCall.ret.ok
             /\ zkCall.ret.error = "Cannot exceed 1023 images"
        /\ zkCall.ret.ok <=>
             /\ ~overflows(batch, old)
             /\ \A c \in dummyChains(batch) : atSlot(c) < MAX_PER_CHAIN

\* chain 0 held 1022 images; the batch has one real action, for chain 0,
\* and four dummy slots that carry chainId 0: no real action overflows, and
\* the batch was rejected
C29_Witness ==
  /\ reducedInOrder
  /\ slotValue(zkCall.before.chainCounters, 0) = MAX_PER_CHAIN - 1
  /\ realActions(zkCall.batch) = 1
  /\ zkCall.batch.slots[1].action.chainId = 0
  /\ dummyChains(zkCall.batch) = {0}
  /\ ~overflows(zkCall.batch, zkCall.before.chainCounters)
  /\ ~zkCall.ret.ok
  /\ zkCall.ret.error = "Cannot exceed 1023 images"
  /\ chainCounters = zkCall.before.chainCounters

(***************************************************************************)
(* Claims about the tokens                                                 *)
(***************************************************************************)
\* C30: tokens are soulbound and one per account.  In both contracts a
\* verifyAndStore that succeeds found the token account new and minted
\* exactly one token to it; approveBase refuses every transfer and moves
\* no token; so every token account holds 0 or 1 token at all times, and a
\* verifyAndStore for an address that holds a token is rejected.
C30_SoulboundUnique ==
  /\ [](contract \in {"direct", "batch"} =>
          \A a \in Addresses : balances[a] \in {0, 1})
  /\ [][(contract \in {"direct", "batch"}
           /\ zkCall'.op = "verifyAndStore") =>
          LET address == zkCall'.address
          IN  /\ zkCall'.ret.ok =>
                   /\ balances[address] = 0
                   /\ zkCall'.ret.mint = [address |-> address, amount |-> 1]
                   /\ balances' = [balances EXCEPT ![address] = 1]
              /\ ~zkCall'.ret.ok => balances' = balances
              /\ balances[address] >= 1 => ~zkCall'.ret.ok]_vars
  /\ [][(contract \in {"direct", "batch"}
           /\ zkCall'.op = "approveBase") =>
          /\ ~zkCall'.ret.ok
          /\ zkCall'.ret.error
               = "transfers of tokens are not allowed, change the owner instead"
          /\ balances' = balances]_vars
  /\ [][(contract \in {"direct", "batch"}) =>
          (\A a \in Addresses : balances[a] <= balances'[a])]_vars

\* alice and bob hold one token each, and a transfer of alice's token to bob
\* has just been refused
C30_Witness ==
  /\ contract \in {"direct", "batch"}
  /\ balances["alice"] = 1
  /\ balances["bob"] = 1
  /\ zkCall # None
  /\ zkCall.op = "approveBase"
  /\ zkCall.forest = [from |-> "alice", to |-> "bob", amount |-> 1]
  /\ ~zkCall.ret.ok

\* a second mint for alice, with a valid proof and a chain that has room,
\* has just been rejected on account.isNew
C30_WitnessSecondMint ==
  /\ contract = "batch"
  /\ balances["alice"] = 1
  /\ zkCall # None
  /\ zkCall.op = "verifyAndStore"
  /\ zkCall.address = "alice"
  /\ zkCall.chainId = 0
  /\ ~zkCall.ret.ok
  /\ zkCall.ret.error = "account.isNew"

=============================================================================
